---- MODULE Spec2Model ----
(***************************************************************************)
(* Record reconciliation of the company aggregator endpoints:              *)
(*   api/company-by-domain.js  (domain-first handler)                      *)
(*   api/company.js            (name-first handler)                        *)
(* JavaScript values are modelled as tagged records, JavaScript strings as *)
(* sequences of one-character strings, so that trimming, regular           *)
(* expression matching and number/date conversion are computed and not     *)
(* assumed.                                                                *)
(* Nine runs share the variables: SpecSelector (extractFromWikidata on the *)
(* employee statements), SpecParser (parseEmployeesString), Spec (the two  *)
(* handlers from request to response), SpecIndustry (the industry union),  *)
(* SpecTicker (choosePrimaryTicker and the quote), SpecSocial              *)
(* (fetchCompanySocials), SpecUrl (the URL-scrape handler), SpecHq         *)
(* (buildHeadquarters over a located-in graph) and SpecConc (invocations   *)
(* of the handler interleaved at their awaits). Each run leaves the        *)
(* variables of the others at rest.                                        *)
(***************************************************************************)
EXTENDS Integers, Sequences, FiniteSets, TLC

VARIABLES
    stmts,      \* claims.P1128 handed to extractFromWikidata (a list of statements)
    picked,     \* the statement latestByP585 returned
    wdEmp,      \* the employees value extractFromWikidata built from it
    selPc,      \* position of the selector run: "off", "build" or "done"
    hostTZ,     \* hours the host's local time is ahead of UTC
    parts,      \* the pieces of the infobox employees text
    rawIn,      \* the raw argument of parseEmployeesString
    found,      \* the date candidate parseEmployeesString chose
    parsed,     \* what parseEmployeesString returned
    parsePc,    \* position of the parser run: "off", "build" or "done"
    handler,    \* which handler runs: "name" (name-first) or "domain" (domain-first)
    hPc,        \* position of the handler: "search", "lookup", "scrape", "merge",
                \* or, once it has answered, "done", "notfound" or "failed"
    status,     \* the status of the response (0 while there is none)
    responses,  \* how many responses the handler has sent
    input,      \* the q or domain parameter of the request
    browser,    \* the handler's browser: "none", "open" or "closed"
    launches,   \* how many browsers the handler has launched
    failure,    \* the optional collaborator whose call failed ("none" when none did)
    entity,     \* what the Wikidata entity carried (Null when none was found)
    enriched,   \* the handler's enriched object
    wdLocals,   \* the handler's hqStruct, baseName and wikipediaUrl
    infobox,    \* what scrapeWikipediaInfobox returned (Null when it did not run)
    wiki,       \* the handler's wiki object
    wikiEmployeesParsed,  \* parseEmployeesString(wiki.company_size)
    merged,     \* the merged record
    ftIndustry, \* the infobox industry list handed to the union
    wdIndustry, \* the structured industry list handed to the union
    industryOut,\* the merged industry list
    indPc,       \* position of the union run: "off", "build" or "done"
    exchangePreference, \* the EXCHANGE_PREFERENCE list of the handler variant
    tickers,    \* the ticker candidates {symbol, exchange}
    primaryTicker,  \* what choosePrimaryTicker returned
    finnhubKey, \* whether FINNHUB_API_KEY is set
    financials, \* the quote the handler keeps (Null when none)
    quotedBy,   \* the provider whose call returned that quote (Null when none)
    financeSource,  \* source.finance of the response
    tickPc,      \* position of the ticker run: "off", "build", "quote", "done" or "failed"
    hrefs,      \* the href attributes of the fetched page, in page order
    links,      \* fetchCompanySocials' links: absolute, trimmed, each once
    linkKeys,   \* classifySocial(link) of each of them
    social,     \* what fetchCompanySocials returned
    socPc,       \* position of the socials run: "off", "build" or "done"
    queryUrl,     \* req.query.url of the URL-scrape request
    bodyUrl,      \* req.body.url of the URL-scrape request
    urlPc,        \* where the URL-scrape handler is
    urlStatus,    \* the HTTP status it answered with, 0 before
    urlResponses, \* how many responses it has sent
    urlBrowser,   \* its browser: "none", "open" or "closed"
    urlLaunches,  \* how many browsers it has launched
    navigated,     \* the host page.goto was sent to, Null before
    wikidata,       \* the located-in graph around the headquarters place
    entities,       \* the ids the caller's entities object holds
    headquartersId, \* the P159 of the company, NoId when it has none
    more,           \* the ids buildHeadquarters' more object holds
    admin2Id,       \* the P131 of the first hop, NoId before it is read
    requested,      \* the ids buildHeadquarters asked getWikidataEntities for
    fetches,        \* how many times it called getWikidataEntities
    resolved,       \* city, region and country before the label fallback
    hqResult,       \* what buildHeadquarters returned
    hqPc,            \* where buildHeadquarters is
    requests,     \* per invocation: the domain asked for and the collaborators' answers
    moduleValues, \* the values declared at module level, shared by all invocations
    frames,       \* the bindings declared inside handler(), per frame
    invPc,        \* per invocation: the await it is suspended at
    invResponses  \* per invocation: the body it answered with, Null before

selVars == <<stmts, picked, wdEmp, selPc>>
parseVars == <<hostTZ, parts, rawIn, found, parsed, parsePc>>

handlerVars ==
    <<handler, hPc, status, responses, input, browser, launches, failure, entity, enriched, wdLocals, infobox, wiki,
      wikiEmployeesParsed, merged>>
industryVars == <<ftIndustry, wdIndustry, industryOut, indPc>>

tickerVars ==
    <<exchangePreference, tickers, primaryTicker, finnhubKey, financials, quotedBy,
      financeSource, tickPc>>

socialVars == <<hrefs, links, linkKeys, social, socPc>>

urlVars ==
    <<queryUrl, bodyUrl, urlPc, urlStatus, urlResponses, urlBrowser, urlLaunches,
      navigated>>

hqVars ==
    <<wikidata, entities, headquartersId, more, admin2Id, requested, fetches,
      resolved, hqResult, hqPc>>

concVars == <<requests, moduleValues, frames, invPc, invResponses>>

vars == <<selVars, parseVars, handlerVars, industryVars, tickerVars, socialVars, urlVars, hqVars, concVars>>

-----------------------------------------------------------------------------
(* JavaScript values                                                       *)

Null == [k |-> "null"]
NaN == [k |-> "nan"]
Str(s) == [k |-> "str", s |-> s]
Num(n) == [k |-> "num", n |-> n]
List(xs) == [k |-> "list", items |-> xs]

\* ToBoolean: null/undefined, "", 0 and NaN are falsy, everything else truthy.
Truthy(v) ==
    CASE v.k = "null" -> FALSE
      [] v.k = "nan" -> FALSE
      [] v.k = "str" -> v.s # <<>>
      [] v.k = "num" -> v.n # 0
      [] OTHER -> TRUE

\* a || b
Or(a, b) == IF Truthy(a) THEN a ELSE b

\* An integer too long for TLC's integers: the double nearest to the
\* integer that the digits write (finite and non-zero for every length the
\* model reaches).
BigNum(ds) == [k |-> "bignum", digits |-> ds]

\* Number.isFinite
IsFinite(v) == v.k \in {"num", "bignum"}

-----------------------------------------------------------------------------
(* Characters and strings                                                  *)

Digits == {"0", "1", "2", "3", "4", "5", "6", "7", "8", "9"}
Whitespace == {" ", "\t", "\n"}
LowerLetters ==
    {"a", "b", "c", "d", "e", "f", "g", "h", "i", "j", "k", "l", "m",
     "n", "o", "p", "q", "r", "s", "t", "u", "v", "w", "x", "y", "z"}
UpperLetters ==
    {"A", "B", "C", "D", "E", "F", "G", "H", "I", "J", "K", "L", "M",
     "N", "O", "P", "Q", "R", "S", "T", "U", "V", "W", "X", "Y", "Z"}
Letters == LowerLetters \cup UpperLetters

IsDigit(c) == c \in Digits
IsSpace(c) == c \in Whitespace
IsAlpha(c) == c \in Letters

DigitVal(c) ==
    CASE c = "0" -> 0 [] c = "1" -> 1 [] c = "2" -> 2 [] c = "3" -> 3
      [] c = "4" -> 4 [] c = "5" -> 5 [] c = "6" -> 6 [] c = "7" -> 7
      [] c = "8" -> 8 [] c = "9" -> 9

DigitChar(d) ==
    CASE d = 0 -> "0" [] d = 1 -> "1" [] d = 2 -> "2" [] d = 3 -> "3"
      [] d = 4 -> "4" [] d = 5 -> "5" [] d = 6 -> "6" [] d = 7 -> "7"
      [] d = 8 -> "8" [] d = 9 -> "9"

Min(S) == CHOOSE x \in S : \A y \in S : x <= y
Max(S) == CHOOSE x \in S : \A y \in S : x >= y

\* s.replace(/<class>/g, ""): the characters of s outside the set drop.
RECURSIVE RemoveChars(_, _)
RemoveChars(s, drop) ==
    IF s = <<>> THEN <<>>
    ELSE IF Head(s) \in drop THEN RemoveChars(Tail(s), drop)
    ELSE <<Head(s)>> \o RemoveChars(Tail(s), drop)

\* s.replace(/[^\d]/g, "")
RECURSIVE DigitsOnly(_)
DigitsOnly(s) ==
    IF s = <<>> THEN <<>>
    ELSE IF IsDigit(Head(s)) THEN <<Head(s)>> \o DigitsOnly(Tail(s))
    ELSE DigitsOnly(Tail(s))

\* s.slice(0, n)
Slice0(s, n) == SubSeq(s, 1, IF Len(s) < n THEN Len(s) ELSE n)

\* The decimal value of a string of digits ("" reads as 0, as Number("") does).
RECURSIVE DecimalValue(_)
DecimalValue(s) ==
    IF s = <<>> THEN 0
    ELSE 10 * DecimalValue(SubSeq(s, 1, Len(s) - 1)) + DigitVal(s[Len(s)])

AllDigits(s) == \A i \in 1..Len(s) : IsDigit(s[i])

RECURSIVE StripLeadingZeros(_)
StripLeadingZeros(s) ==
    IF Len(s) > 1 /\ Head(s) = "0" THEN StripLeadingZeros(Tail(s)) ELSE s

\* Number(s) on the strings the model feeds it: an optionally signed run of
\* digits is that integer, "" is 0, anything else is NaN.
NumberOf(s) ==
    IF s = <<>> THEN Num(0)
    ELSE IF AllDigits(s)
         THEN IF Len(StripLeadingZeros(s)) <= 9 THEN Num(DecimalValue(s))
              ELSE BigNum(StripLeadingZeros(s))
    ELSE IF Head(s) = "-" /\ Len(s) > 1 /\ AllDigits(Tail(s))
         THEN Num(0 - DecimalValue(Tail(s)))
    ELSE NaN

\* String(n) for a non-negative integer.
RECURSIVE DecimalString(_)
DecimalString(n) ==
    IF n < 10 THEN <<DigitChar(n)>>
    ELSE DecimalString(n \div 10) \o <<DigitChar(n % 10)>>

\* s.trim()
RECURSIVE TrimLeft(_)
TrimLeft(s) ==
    IF s # <<>> /\ IsSpace(Head(s)) THEN TrimLeft(Tail(s)) ELSE s

RECURSIVE TrimRight(_)
TrimRight(s) ==
    IF s # <<>> /\ IsSpace(s[Len(s)]) THEN TrimRight(SubSeq(s, 1, Len(s) - 1)) ELSE s

Trim(s) == TrimRight(TrimLeft(s))

-----------------------------------------------------------------------------
(* extractFromWikidata: the employee statements                            *)

\* A P1128 statement: its Wikidata statement id, whether its main snak carries
\* a datavalue, the quantity's amount string (Null when absent) and the time
\* string of its first P585 qualifier (Null when it has none).
Statement(id, hasValue, amount, time) ==
    [id |-> id, hasValue |-> hasValue, amount |-> amount, time |-> time]

\* Variant: only the year (slice(0,4)) is read as the key.
KeyOf_YearOnly(st) ==
    IF Truthy(st.time) THEN DecimalValue(Slice0(DigitsOnly(st.time.s), 4)) ELSE 0

\* const key = t ? Number(t.replace(/[^\d]/g, "").slice(0,8)) : 0;
KeyOf(st) ==
    IF Truthy(st.time) THEN DecimalValue(Slice0(DigitsOnly(st.time.s), 8)) ELSE 0

\* Variant: the element goes before the elements of equal key (an unstable or
\* ">="-comparing sort).
InsertByKey_TiesFirst(sorted, st) ==
    LET before == {i \in 1..Len(sorted) : KeyOf(sorted[i]) > KeyOf(st)}
        n == IF before = {} THEN 0 ELSE Max(before)
    IN SubSeq(sorted, 1, n) \o <<st>> \o SubSeq(sorted, n + 1, Len(sorted))

\* Array.prototype.sort((a,b) => b.key - a.key) is stable: inserting the
\* elements in input order, each goes after every element whose key is not
\* lower than its own.
InsertByKey(sorted, st) ==
    LET before == {i \in 1..Len(sorted) : KeyOf(sorted[i]) >= KeyOf(st)}
        n == IF before = {} THEN 0 ELSE Max(before)
    IN SubSeq(sorted, 1, n) \o <<st>> \o SubSeq(sorted, n + 1, Len(sorted))

RECURSIVE SortByKeyDesc(_)
SortByKeyDesc(arr) ==
    IF arr = <<>> THEN <<>>
    ELSE InsertByKey(SortByKeyDesc(SubSeq(arr, 1, Len(arr) - 1)), arr[Len(arr)])

\* latestByP585(arr): arr is Null (claims.P1128 undefined) or a List; the
\* result is Null or the chosen statement wrapped as a value.
latestByP585(arr) ==
    IF arr.k # "list" \/ arr.items = <<>> THEN Null
    ELSE [k |-> "stmt", st |-> SortByKeyDesc(arr.items)[1]]

\* s.replace(/^[+]/, "")
StripPlus(s) == IF s # <<>> /\ Head(s) = "+" THEN Tail(s) ELSE s

\* s.replace(/T.*$/, ""): everything from the first "T" on drops.
CutAtT(s) ==
    LET ts == {i \in 1..Len(s) : s[i] = "T"}
    IN IF ts = {} THEN s ELSE SubSeq(s, 1, Min(ts) - 1)

Employees(count, as_of) == [k |-> "emp", count |-> count, as_of |-> as_of]

\* Variant: the guard that collapses an empty snapshot to null is missing.
EmployeesOrNull_NoGuard(count, as_of) ==
    Employees(IF IsFinite(count) THEN count ELSE Null, Or(as_of, Null))

\* if (Number.isFinite(count) || as_of)
\*   employees = { count: Number.isFinite(count) ? count : null, as_of: as_of || null };
EmployeesOrNull(count, as_of) ==
    IF IsFinite(count) \/ Truthy(as_of)
    THEN Employees(IF IsFinite(count) THEN count ELSE Null, Or(as_of, Null))
    ELSE Null

\* extractFromWikidata, employees: the latest P1128 statement as {count, as_of}.
ExtractEmployees(p1128) ==
    LET emp == latestByP585(p1128)
    IN IF emp.k = "stmt" /\ emp.st.hasValue
       THEN LET raw == StripPlus(Or(emp.st.amount, Str(<<>>)).s)
                count == IF raw # <<>> THEN NumberOf(raw) ELSE Null
                dateStr == Or(emp.st.time, Null)
                as_of == IF Truthy(dateStr)
                         THEN Str(CutAtT(StripPlus(dateStr.s)))
                         ELSE Null
            IN EmployeesOrNull(count, as_of)
       ELSE Null

-----------------------------------------------------------------------------
(* parseEmployeesString: regular expressions over a string                 *)

\* The index of the last character of the longest run of characters of the
\* set that starts at i (i - 1 when the character at i is not in it).
RunEnd(c, i, class) ==
    LET stops == {j \in i..Len(c) : c[j] \notin class}
    IN IF stops = {} THEN Len(c) ELSE Min(stops) - 1

FourDigitsAt(c, i) ==
    /\ i >= 1
    /\ i + 3 <= Len(c)
    /\ \A j \in i..(i + 3) : IsDigit(c[j])

\* /(\d{4}-\d{2}-\d{2})/ matched at i: the index of the match's last
\* character, 0 when it does not match there.
IsoEnd(c, i) ==
    IF /\ FourDigitsAt(c, i)
       /\ i + 9 <= Len(c)
       /\ c[i + 4] = "-" /\ IsDigit(c[i + 5]) /\ IsDigit(c[i + 6])
       /\ c[i + 7] = "-" /\ IsDigit(c[i + 8]) /\ IsDigit(c[i + 9])
    THEN i + 9 ELSE 0

\* /(\d{1,2}\s+[A-Za-z]{3,}\s+\d{4})/ matched at i. The quantifiers are
\* greedy; each run must be taken whole because the next piece cannot start
\* inside it, and \d{1,2} takes two digits when whitespace follows them.
DmyEndWith(c, i, d) ==
    LET w1 == RunEnd(c, i + d, Whitespace)
        a1 == RunEnd(c, w1 + 1, Letters)
        w2 == RunEnd(c, a1 + 1, Whitespace)
    IN IF /\ i + d - 1 <= Len(c)
          /\ \A j \in i..(i + d - 1) : IsDigit(c[j])
          /\ w1 >= i + d
          /\ a1 - w1 >= 3
          /\ w2 >= a1 + 1
          /\ FourDigitsAt(c, w2 + 1)
       THEN w2 + 4 ELSE 0

DmyEnd(c, i) ==
    IF DmyEndWith(c, i, 2) > 0 THEN DmyEndWith(c, i, 2) ELSE DmyEndWith(c, i, 1)

\* /([A-Za-z]{3,}\s+\d{1,2},?\s+\d{4})/ matched at i.
MdyEndWith(c, i, d) ==
    LET a1 == RunEnd(c, i, Letters)
        w1 == RunEnd(c, a1 + 1, Whitespace)
        p == w1 + d + 1
        q == IF p <= Len(c) /\ c[p] = "," THEN p + 1 ELSE p
        w2 == RunEnd(c, q, Whitespace)
    IN IF /\ a1 - i + 1 >= 3
          /\ w1 >= a1 + 1
          /\ w1 + d <= Len(c)
          /\ \A j \in (w1 + 1)..(w1 + d) : IsDigit(c[j])
          /\ w2 >= q
          /\ FourDigitsAt(c, w2 + 1)
       THEN w2 + 4 ELSE 0

MdyEnd(c, i) ==
    IF MdyEndWith(c, i, 2) > 0 THEN MdyEndWith(c, i, 2) ELSE MdyEndWith(c, i, 1)

\* /([A-Za-z]{3,}\s+\d{4})/ matched at i.
YmEnd(c, i) ==
    LET a1 == RunEnd(c, i, Letters)
        w1 == RunEnd(c, a1 + 1, Whitespace)
    IN IF /\ a1 - i + 1 >= 3
          /\ w1 >= a1 + 1
          /\ FourDigitsAt(c, w1 + 1)
       THEN w1 + 4 ELSE 0

\* /(\d{4})/ matched at i.
YrEnd(c, i) == IF FourDigitsAt(c, i) THEN i + 3 ELSE 0

\* chunk.match(re): the leftmost match as a string value, Null without one.
FirstMatch(c, End(_, _)) ==
    LET starts == {i \in 1..Len(c) : End(c, i) > 0}
    IN IF starts = {} THEN Null
       ELSE Str(SubSeq(c, Min(starts), End(c, Min(starts))))

\* raw.match(/\(([^)]+)\)/): the text between the leftmost "(" that is
\* followed by at least one character other than ")" and the next ")".
ParenEnd(c, i) ==
    LET closes == {j \in (i + 1)..Len(c) : c[j] = ")"}
    IN IF c[i] = "(" /\ closes # {} /\ Min(closes) > i + 1 THEN Min(closes) ELSE 0

ParenContent(c) ==
    LET starts == {i \in 1..Len(c) : ParenEnd(c, i) > 0}
    IN IF starts = {} THEN Null
       ELSE Str(SubSeq(c, Min(starts) + 1, ParenEnd(c, Min(starts)) - 1))

\* const chunk = (paren ? paren[1] : raw);
ChunkOf(raw) == IF ParenContent(raw).k = "str" THEN ParenContent(raw).s ELSE raw

\* /\d{3,}/ matched at i: the whole run of digits when it has three or more.
Digits3End(c, i) ==
    IF RunEnd(c, i, Digits) - i + 1 >= 3 THEN RunEnd(c, i, Digits) ELSE 0

\* Variant: the minimum length of the run is two digits.
CountOf_TwoDigits(raw) ==
    LET stripped == RemoveChars(raw, {",", "."} \cup Whitespace)
        starts == {i \in 1..Len(stripped) : RunEnd(stripped, i, Digits) - i + 1 >= 2}
    IN IF starts = {} THEN Null
       ELSE NumberOf(SubSeq(stripped, Min(starts), RunEnd(stripped, Min(starts), Digits)))

\* const numMatch = raw.replace(/[,.\s]/g, '').match(/\d{3,}/);
\* const count = numMatch ? Number(numMatch[0]) : null;
CountOf(raw) ==
    LET m == FirstMatch(RemoveChars(raw, {",", "."} \cup Whitespace), Digits3End)
    IN IF m.k = "str" THEN NumberOf(m.s) ELSE Null

\* Variant: the bare year is tried before the month-year form.
FoundIn_YearBeforeMonthYear(chunk) ==
    Or(Or(Or(Or(FirstMatch(chunk, IsoEnd), FirstMatch(chunk, DmyEnd)),
             FirstMatch(chunk, MdyEnd)),
          FirstMatch(chunk, YrEnd)),
       FirstMatch(chunk, YmEnd))

\* const found = pick(iso) || pick(dmy) || pick(mdy) || pick(ym) || pick(yr);
FoundIn(chunk) ==
    Or(Or(Or(Or(FirstMatch(chunk, IsoEnd), FirstMatch(chunk, DmyEnd)),
             FirstMatch(chunk, MdyEnd)),
          FirstMatch(chunk, YmEnd)),
       FirstMatch(chunk, YrEnd))

-----------------------------------------------------------------------------
(* parseEmployeesString: new Date(found) and the UTC getters               *)

LowerSeq ==
    <<"a", "b", "c", "d", "e", "f", "g", "h", "i", "j", "k", "l", "m",
      "n", "o", "p", "q", "r", "s", "t", "u", "v", "w", "x", "y", "z">>
UpperSeq ==
    <<"A", "B", "C", "D", "E", "F", "G", "H", "I", "J", "K", "L", "M",
      "N", "O", "P", "Q", "R", "S", "T", "U", "V", "W", "X", "Y", "Z">>

ToLower(ch) ==
    IF ch \in UpperLetters
    THEN LowerSeq[CHOOSE i \in 1..26 : UpperSeq[i] = ch]
    ELSE ch

MonthPrefixes ==
    << <<"j", "a", "n">>, <<"f", "e", "b">>, <<"m", "a", "r">>, <<"a", "p", "r">>,
       <<"m", "a", "y">>, <<"j", "u", "n">>, <<"j", "u", "l">>, <<"a", "u", "g">>,
       <<"s", "e", "p">>, <<"o", "c", "t">>, <<"n", "o", "v">>, <<"d", "e", "c">> >>

\* The engine's legacy date parser takes any word whose first three letters
\* are those of a month name, in either case, as that month: 1..12, or 0 when
\* the word is none.
MonthOf(word) ==
    LET pre == [i \in 1..3 |-> ToLower(word[i])]
        hits == {m \in 1..12 : MonthPrefixes[m] = pre}
    IN IF Len(word) < 3 \/ hits = {} THEN 0 ELSE CHOOSE m \in hits : TRUE

IsLeap(y) == (y % 4 = 0 /\ y % 100 # 0) \/ y % 400 = 0

DaysInMonth(y, m) ==
    IF m = 2 THEN (IF IsLeap(y) THEN 29 ELSE 28)
    ELSE IF m \in {4, 6, 9, 11} THEN 30 ELSE 31

Date(y, m, d) == [k |-> "date", y |-> y, m |-> m, d |-> d]
InvalidDate == [k |-> "invalid"]

\* MakeDay: a day of month past the month's end runs into the next month.
Normalize(y, m, d) ==
    IF d <= DaysInMonth(y, m) THEN Date(y, m, d)
    ELSE IF m < 12 THEN Date(y, m + 1, d - DaysInMonth(y, m))
    ELSE Date(y + 1, 1, d - DaysInMonth(y, m))

PrevDay(dt) ==
    IF dt.d > 1 THEN Date(dt.y, dt.m, dt.d - 1)
    ELSE IF dt.m > 1 THEN Date(dt.y, dt.m - 1, DaysInMonth(dt.y, dt.m - 1))
    ELSE Date(dt.y - 1, 12, 31)

\* The UTC calendar date of local midnight of dt on a host whose clock is tz
\* hours ahead of UTC: the previous day when the host is ahead.
UtcDateOfLocalMidnight(dt, tz) == IF tz > 0 THEN PrevDay(dt) ELSE dt

IsDay(n) == n >= 1 /\ n <= 31
IsMonth(n) == n >= 1 /\ n <= 12

\* The tokens of a legacy date string.  A matched date candidate that is not
\* of the ISO form holds digits, letters, whitespace and commas only: runs of
\* digits are numbers, runs of letters are words (valued by the month they
\* name), whitespace and commas separate tokens and are ignored.
RECURSIVE DateTokens(_, _)
DateTokens(c, i) ==
    IF i > Len(c) THEN <<>>
    ELSE IF IsDigit(c[i])
         THEN <<[t |-> "num", v |-> DecimalValue(SubSeq(c, i, RunEnd(c, i, Digits)))]>>
              \o DateTokens(c, RunEnd(c, i, Digits) + 1)
    ELSE IF IsAlpha(c[i])
         THEN <<[t |-> "word", v |-> MonthOf(SubSeq(c, i, RunEnd(c, i, Letters)))]>>
              \o DateTokens(c, RunEnd(c, i, Letters) + 1)
    ELSE DateTokens(c, i + 1)

\* The legacy scan: numbers are date components (at most three), a month word
\* names the month, any other word is ignored before the first number and
\* illegal after it.  The result is the components read and the named month,
\* or the failure of the parse.
RECURSIVE LegacyScan(_, _, _)
LegacyScan(toks, comps, named) ==
    IF toks = <<>> THEN [ok |-> TRUE, comps |-> comps, named |-> named]
    ELSE LET tok == Head(toks)
         IN IF tok.t = "num"
            THEN IF Len(comps) >= 3 THEN [ok |-> FALSE, comps |-> comps, named |-> named]
                 ELSE LegacyScan(Tail(toks), Append(comps, tok.v), named)
            ELSE IF tok.v > 0 THEN LegacyScan(Tail(toks), comps, tok.v)
            ELSE IF comps # <<>> THEN [ok |-> FALSE, comps |-> comps, named |-> named]
            ELSE LegacyScan(Tail(toks), comps, named)

\* Years 0..49 read as 20xx and 50..99 as 19xx in a legacy date.
LegacyYear(y) == IF y <= 49 THEN y + 2000 ELSE IF y <= 99 THEN y + 1900 ELSE y

\* DayComposer::Write: missing components default to 1; with a named month
\* the first component is the day when it can be one and the year otherwise;
\* without one the order is year-month-day when the first component cannot
\* be a day and month-day-year otherwise.
LegacyCompose(scan) ==
    LET c == scan.comps \o SubSeq(<<1, 1, 1>>, 1, 3 - Len(scan.comps))
        ymd == IF scan.named > 0
               THEN IF ~IsDay(c[1]) THEN <<c[1], scan.named, c[2]>>
                    ELSE <<c[2], scan.named, c[1]>>
               ELSE IF ~IsDay(c[1]) THEN <<c[1], c[2], c[3]>>
                    ELSE <<c[3], c[1], c[2]>>
    IN IF ~scan.ok \/ scan.comps = <<>> \/ ~IsMonth(ymd[2]) \/ ~IsDay(ymd[3])
       THEN InvalidDate
       ELSE Normalize(LegacyYear(ymd[1]), ymd[2], ymd[3])

IsIsoShape(f) == Len(f) = 10 /\ IsoEnd(f, 1) = 10

\* new Date(found) followed by getUTCFullYear/getUTCMonth/getUTCDate.  A
\* string of the form YYYY-MM-DD is an ISO date-only string and denotes UTC
\* midnight; its month must be 01..12 and its day 01..31 or the date is
\* invalid.  Every other string goes through the legacy parser and denotes
\* local midnight of the host.
UtcDateOf(f, tz) ==
    IF IsIsoShape(f)
    THEN LET y == DecimalValue(SubSeq(f, 1, 4))
             m == DecimalValue(SubSeq(f, 6, 7))
             d == DecimalValue(SubSeq(f, 9, 10))
         IN IF IsMonth(m) /\ IsDay(d) THEN Normalize(y, m, d) ELSE InvalidDate
    ELSE LET dt == LegacyCompose(LegacyScan(DateTokens(f, 1), <<>>, 0))
         IN IF dt.k = "date" THEN UtcDateOfLocalMidnight(dt, tz) ELSE dt

\* String(n).padStart(2, '0')
Pad2(n) == IF n < 10 THEN <<"0">> \o DecimalString(n) ELSE DecimalString(n)

\* `${y}-${m}-${d}`
FormatDate(dt) == DecimalString(dt.y) \o <<"-">> \o Pad2(dt.m) \o <<"-">> \o Pad2(dt.d)

\* Variant: the isNaN guard is missing and an invalid date is formatted too.
AsOfOf_InvalidKept(cand, tz) ==
    IF ~Truthy(cand) THEN Null
    ELSE IF Len(cand.s) = 4 /\ AllDigits(cand.s)
         THEN Str(cand.s \o <<"-", "0", "1", "-", "0", "1">>)
    ELSE LET dt == UtcDateOf(cand.s, tz)
         IN IF dt.k = "date" THEN Str(FormatDate(dt))
            ELSE Str(<<"N", "a", "N", "-", "N", "a", "N", "-", "N", "a", "N">>)

\* if (/^\d{4}$/.test(found)) as_of = `${found}-01-01`;
\* else { const dt = new Date(found); if (!isNaN(dt)) as_of = `${y}-${m}-${d}`; }
AsOfOf(cand, tz) ==
    IF ~Truthy(cand) THEN Null
    ELSE IF Len(cand.s) = 4 /\ AllDigits(cand.s)
         THEN Str(cand.s \o <<"-", "0", "1", "-", "0", "1">>)
    ELSE LET dt == UtcDateOf(cand.s, tz)
         IN IF dt.k = "date" THEN Str(FormatDate(dt)) ELSE Null

\* if (Number.isFinite(count) || as_of) return { count: ..., as_of: as_of || null };
\* return null;
ParsedOrNull(count, as_of) ==
    IF IsFinite(count) \/ Truthy(as_of)
    THEN Employees(IF IsFinite(count) THEN count ELSE Null, Or(as_of, Null))
    ELSE Null

\* raw.replace(...) is the only call outside the try block that can throw: it
\* does when raw is truthy and not a string.
ParseRaises(raw) == Truthy(raw) /\ raw.k # "str"

\* parseEmployeesString(raw) on a host tz hours ahead of UTC.
parseEmployeesString(raw, tz) ==
    IF ~Truthy(raw) THEN Null
    ELSE ParsedOrNull(CountOf(raw.s), AsOfOf(FoundIn(ChunkOf(raw.s)), tz))

-----------------------------------------------------------------------------
(* Inputs of the selector runs                                             *)

T_2023_01_01 ==
    <<"+", "2", "0", "2", "3", "-", "0", "1", "-", "0", "1",
      "T", "0", "0", ":", "0", "0", ":", "0", "0", "Z">>
T_2024_06_30 ==
    <<"+", "2", "0", "2", "4", "-", "0", "6", "-", "3", "0",
      "T", "0", "0", ":", "0", "0", ":", "0", "0", "Z">>
\* the same day with another time of day: a distinct timestamp, the same key
T_2024_06_30_NOON ==
    <<"+", "2", "0", "2", "4", "-", "0", "6", "-", "3", "0",
      "T", "1", "2", ":", "0", "0", ":", "0", "0", "Z">>
\* year precision, as Wikidata writes it
T_2024_00_00 ==
    <<"+", "2", "0", "2", "4", "-", "0", "0", "-", "0", "0",
      "T", "0", "0", ":", "0", "0", ":", "0", "0", "Z">>

AMT_187000 == <<"+", "1", "8", "7", "0", "0", "0">>
AMT_500 == <<"+", "5", "0", "0">>
AMT_0 == <<"+", "0">>
AMT_BAD == <<"+", "n", "/", "a">>

StatementPool ==
    { Statement("s1", TRUE, Str(AMT_187000), Str(T_2023_01_01)),
      Statement("s2", TRUE, Str(AMT_500), Str(T_2024_06_30)),
      Statement("s3", TRUE, Str(AMT_BAD), Str(T_2024_06_30_NOON)),
      Statement("s4", TRUE, Str(AMT_0), Null),
      Statement("s5", TRUE, Null, Null),
      Statement("s6", FALSE, Null, Str(T_2024_00_00)),
      Statement("s7", TRUE, Str(AMT_500), Str(T_2024_00_00)) }

MaxStmts == 3

Ids(xs) == {xs[i].id : i \in 1..Len(xs)}

-----------------------------------------------------------------------------
(* The selector as a run: build claims.P1128, then extract                 *)

SelStart ==
    /\ stmts = Null
    /\ picked = Null
    /\ wdEmp = Null
    /\ selPc = "build"

SelOff ==
    /\ stmts = Null
    /\ picked = Null
    /\ wdEmp = Null
    /\ selPc = "off"

ParseOff ==
    /\ hostTZ = 0
    /\ parts = <<>>
    /\ rawIn = Null
    /\ found = Null
    /\ parsed = Null
    /\ parsePc = "off"

HandlerOff ==
    /\ handler = "off"
    /\ hPc = "off"
    /\ status = 0
    /\ responses = 0
    /\ input = Null
    /\ browser = "none"
    /\ launches = 0
    /\ failure = "none"
    /\ entity = Null
    /\ enriched = Null
    /\ wdLocals = Null
    /\ infobox = Null
    /\ wiki = Null
    /\ wikiEmployeesParsed = Null
    /\ merged = Null

IndustryOff ==
    /\ ftIndustry = Null
    /\ wdIndustry = Null
    /\ industryOut = Null
    /\ indPc = "off"

TickerOff ==
    /\ exchangePreference = <<>>
    /\ tickers = Null
    /\ primaryTicker = Null
    /\ finnhubKey = FALSE
    /\ financials = Null
    /\ quotedBy = Null
    /\ financeSource = Null
    /\ tickPc = "off"

SocialOff ==
    /\ hrefs = <<>>
    /\ links = <<>>
    /\ linkKeys = <<>>
    /\ social = Null
    /\ socPc = "off"

UrlOff ==
    /\ queryUrl = Null
    /\ bodyUrl = Null
    /\ urlPc = "off"
    /\ urlStatus = 0
    /\ urlResponses = 0
    /\ urlBrowser = "none"
    /\ urlLaunches = 0
    /\ navigated = Null

HqOff ==
    /\ wikidata = Null
    /\ entities = {}
    /\ headquartersId = "none"
    /\ more = {}
    /\ admin2Id = "none"
    /\ requested = {}
    /\ fetches = 0
    /\ resolved = Null
    /\ hqResult = Null
    /\ hqPc = "off"

ConcOff ==
    /\ requests = <<>>
    /\ moduleValues = Null
    /\ frames = <<>>
    /\ invPc = <<>>
    /\ invResponses = <<>>

SelInit == SelStart /\ ParseOff /\ HandlerOff /\ IndustryOff /\ TickerOff /\ SocialOff /\ UrlOff /\ HqOff /\ ConcOff

\* The entity carries one more P1128 statement.
AddStatement ==
    /\ selPc = "build"
    /\ \E st \in StatementPool :
          LET cur == IF stmts.k = "list" THEN stmts.items ELSE <<>>
          IN /\ Len(cur) < MaxStmts
             /\ st.id \notin Ids(cur)
             /\ stmts' = List(Append(cur, st))
    /\ UNCHANGED <<picked, wdEmp, selPc, parseVars, handlerVars, industryVars, tickerVars, socialVars, urlVars, hqVars, concVars>>

\* The entity has a P1128 key with no statement left in it.
EmptyStatementList ==
    /\ selPc = "build"
    /\ stmts = Null
    /\ stmts' = List(<<>>)
    /\ UNCHANGED <<picked, wdEmp, selPc, parseVars, handlerVars, industryVars, tickerVars, socialVars, urlVars, hqVars, concVars>>

\* extractFromWikidata(entity) runs on the entity.
ExtractFromWikidata ==
    /\ selPc = "build"
    /\ picked' = latestByP585(stmts)
    /\ wdEmp' = ExtractEmployees(stmts)
    /\ selPc' = "done"
    /\ UNCHANGED <<stmts, parseVars, handlerVars, industryVars, tickerVars, socialVars, urlVars, hqVars, concVars>>

SelNext == AddStatement \/ EmptyStatementList \/ ExtractFromWikidata

SpecSelector == SelInit /\ [][SelNext]_vars

-----------------------------------------------------------------------------
(* The parser as a run: build the infobox text, then parse it              *)

W_COUNT == <<"1", "8", "2", ",", "5", "0", "2">>
W_SMALL == <<"3", "0">>
W_MONTH == <<"J", "u", "n", "e">>
W_WORD == <<"f", "o", "u", "n", "d", "e", "d">>
W_YEAR == <<"2", "0", "2", "4">>
W_ISO == <<"2", "0", "2", "4", "-", "0", "6", "-", "3", "0">>

Words == {W_COUNT, W_SMALL, W_MONTH, W_WORD, W_YEAR, W_ISO, <<>>}

\* Hosts behind UTC, on UTC and ahead of UTC.
TZOffsets == {-5, 0, 2}

MaxParts == 3

\* A piece of text: a word, possibly opening or closing a parenthesis.
RenderPart(p) ==
    (IF p.open THEN <<"(">> ELSE <<>>) \o p.w \o (IF p.close THEN <<")">> ELSE <<>>)

\* The pieces joined by single blanks.
RECURSIVE Render(_)
Render(ps) ==
    IF ps = <<>> THEN <<>>
    ELSE IF Len(ps) = 1 THEN RenderPart(ps[1])
    ELSE RenderPart(Head(ps)) \o <<" ">> \o Render(Tail(ps))

ParseStart ==
    /\ hostTZ \in TZOffsets
    /\ parts = <<>>
    /\ rawIn = Null
    /\ found = Null
    /\ parsed = Null
    /\ parsePc = "build"

ParseInit == ParseStart /\ SelOff /\ HandlerOff /\ IndustryOff /\ TickerOff /\ SocialOff /\ UrlOff /\ HqOff /\ ConcOff

\* The infobox cell holds one more piece of text (at most one parenthesis).
AppendPart ==
    /\ parsePc = "build"
    /\ Len(parts) < MaxParts
    /\ \E w \in Words, o \in BOOLEAN, cl \in BOOLEAN :
          LET opened == \E i \in 1..Len(parts) : parts[i].open
              closed == \E i \in 1..Len(parts) : parts[i].close
          IN /\ o => ~opened
             /\ cl => ((opened \/ o) /\ ~closed)
             /\ parts' = Append(parts, [w |-> w, open |-> o, close |-> cl])
             /\ rawIn' = Str(Render(parts'))
    /\ UNCHANGED <<hostTZ, found, parsed, parsePc, selVars, handlerVars, industryVars, tickerVars, socialVars, urlVars, hqVars, concVars>>

\* parseEmployeesString(wiki.company_size) runs.
ParseEmployees ==
    /\ parsePc = "build"
    /\ found' = (IF Truthy(rawIn) /\ ~ParseRaises(rawIn) THEN FoundIn(ChunkOf(rawIn.s)) ELSE Null)
    /\ parsed' = (IF ParseRaises(rawIn) THEN Null ELSE parseEmployeesString(rawIn, hostTZ))
    /\ parsePc' = (IF ParseRaises(rawIn) THEN "threw" ELSE "done")
    /\ UNCHANGED <<hostTZ, parts, rawIn, selVars, handlerVars, industryVars, tickerVars, socialVars, urlVars, hqVars, concVars>>

ParseNext == AppendPart \/ ParseEmployees

SpecParser == ParseInit /\ [][ParseNext]_vars

-----------------------------------------------------------------------------
(* URLs                                                                    *)

StartsWith(s, pre) == Len(s) >= Len(pre) /\ SubSeq(s, 1, Len(pre)) = pre
EndsWith(s, suf) == Len(s) >= Len(suf) /\ SubSeq(s, Len(s) - Len(suf) + 1, Len(s)) = suf

\* s.toLowerCase()
LowerCased(s) == [i \in 1..Len(s) |-> ToLower(s[i])]

\* /^https?:\/\//i.test(h)
IsAbsoluteHttp(h) ==
    \/ StartsWith(LowerCased(h), <<"h", "t", "t", "p", ":", "/", "/">>)
    \/ StartsWith(LowerCased(h), <<"h", "t", "t", "p", "s", ":", "/", "/">>)

\* new URL(url).hostname of a string that starts with http:// or https://:
\* the authority runs to the first "/", "\", "?" or "#", loses its userinfo
\* and its port and is lower-cased; an empty host or a blank in it throws
\* (Null here).
ParseHostname(url) ==
    LET t == Trim(url)
        colon == Min({i \in 1..Len(t) : t[i] = ":"})
        slashes == {"/", "\\"}
        start == Min({i \in (colon + 1)..(Len(t) + 1) : i > Len(t) \/ t[i] \notin slashes})
        stops == {i \in start..Len(t) : t[i] \in (slashes \cup {"?", "#"})}
        stop == IF stops = {} THEN Len(t) ELSE Min(stops) - 1
        authority == SubSeq(t, start, stop)
        ats == {i \in 1..Len(authority) : authority[i] = "@"}
        hostport == IF ats = {} THEN authority
                    ELSE SubSeq(authority, Max(ats) + 1, Len(authority))
        colons == {i \in 1..Len(hostport) : hostport[i] = ":"}
        host == IF colons = {} THEN hostport ELSE SubSeq(hostport, 1, Min(colons) - 1)
    IN IF host = <<>> \/ \E i \in 1..Len(host) : IsSpace(host[i])
       THEN Null
       ELSE Str(LowerCased(host))

-----------------------------------------------------------------------------
(* The merge helpers                                                       *)

\* x || []
ItemsOf(v) == IF v.k = "list" THEN v.items ELSE <<>>

\* Array.from(new Set(xs)): each value once, at its first occurrence.
RECURSIVE SetOrder(_)
SetOrder(xs) ==
    IF xs = <<>> THEN <<>>
    ELSE LET init == SetOrder(SubSeq(xs, 1, Len(xs) - 1))
             last == xs[Len(xs)]
         IN IF \E i \in 1..Len(init) : init[i] = last THEN init ELSE Append(init, last)

\* unique(arr): drop falsy items, trim, drop empty strings, keep first occurrences.
unique(arr) ==
    LET kept == SelectSeq(arr, Truthy)
        trimmed == [i \in 1..Len(kept) |-> Str(Trim(kept[i].s))]
    IN SetOrder(SelectSeq(trimmed, Truthy))

\* Variant: the structured items come first.
MergedIndustry_StructuredFirst(wikiIndustry, enrichedIndustry) ==
    List(unique(ItemsOf(enrichedIndustry) \o ItemsOf(wikiIndustry)))

\* industry: unique([...(wiki.industry || []), ...(enriched.industry || [])])
MergedIndustry(wikiIndustry, enrichedIndustry) ==
    List(unique(ItemsOf(wikiIndustry) \o ItemsOf(enrichedIndustry)))

\* labels.join(", ")
RECURSIVE Join(_, _)
Join(xs, sep) ==
    IF xs = <<>> THEN <<>>
    ELSE IF Len(xs) = 1 THEN xs[1]
    ELSE xs[1] \o sep \o Join(Tail(xs), sep)

\* s.split(",")
RECURSIVE SplitComma(_)
SplitComma(s) ==
    LET commas == {i \in 1..Len(s) : s[i] = ","}
    IN IF commas = {} THEN <<s>>
       ELSE LET i == Min(commas)
            IN <<SubSeq(s, 1, i - 1)>> \o SplitComma(SubSeq(s, i + 1, Len(s)))

Headquarters(raw, place, city, region, country, coordinates) ==
    [k |-> "hq", raw |-> raw, place |-> place, city |-> city, region |-> region,
     country |-> country, coordinates |-> coordinates]

\* The headquarters record built from the infobox text:
\* wiki.headquarters.split(",")[i]?.trim() || null
FreeTextHeadquarters(text) ==
    LET pieces == SplitComma(text.s)
        At(i) == IF i <= Len(pieces) THEN Or(Str(Trim(pieces[i])), Null) ELSE Null
    IN Headquarters(text, At(1), At(2), At(3), At(Len(pieces)), Null)

\* An administrative entity of the headquarters' hierarchy: its English label
\* and whether it is an instance of city (Q515) or human settlement (Q486972).
Place(label, settlement) == [k |-> "place", label |-> label, settlement |-> settlement]

\* (label || "").split(",").map(s => s.trim()).filter(Boolean)
LabelParts(label) ==
    IF ~Truthy(label) THEN <<>>
    ELSE LET pieces == SplitComma(label.s)
         IN SelectSeq([i \in 1..Len(pieces) |-> Trim(pieces[i])], LAMBDA x : x # <<>>)

\* city after the two hops were classified: admin1's label when admin1 looks
\* like a city or a human settlement; when that left no city and admin2 was
\* found, admin2's label when admin2 looks like one.
GraphCity(admin1, admin2) ==
    LET city1 == IF admin1 # Null /\ admin1.settlement THEN admin1.label ELSE Null
    IN IF ~Truthy(city1) /\ admin2 # Null /\ admin2.settlement THEN admin2.label ELSE city1

\* region after the two hops were classified: admin1's label when admin1 does
\* not look like a settlement; when there is no city and admin2 was found and
\* does not look like one, admin2's label if (!region).
GraphRegion(admin1, admin2) ==
    LET city1 == IF admin1 # Null /\ admin1.settlement THEN admin1.label ELSE Null
        region1 == IF admin1 # Null /\ ~admin1.settlement THEN admin1.label ELSE Null
    IN IF ~Truthy(city1) /\ admin2 # Null /\ ~admin2.settlement /\ ~Truthy(region1)
       THEN admin2.label ELSE region1

\* The three fields a headquarters is resolved to.
Resolved(city, region, country) == [city |-> city, region |-> region, country |-> country]

\* Variant: the second segment of the label always becomes the region.
LabelFallback_OverwritesRegion(label, city, region, country) ==
    LET segments == LabelParts(label)
        fallback == ~Truthy(city) \/ ~Truthy(country)
    IN Resolved(IF fallback /\ ~Truthy(city) /\ Len(segments) >= 2
                THEN Str(segments[1]) ELSE city,
                IF fallback /\ Len(segments) >= 3
                THEN Str(segments[2]) ELSE region,
                IF fallback /\ ~Truthy(country) /\ Len(segments) >= 1
                THEN Str(segments[Len(segments)]) ELSE country)

\* if (!city || !country) { parsed = ...; if (!city && parsed.length >= 2) ...
\* if (!region && parsed.length >= 3) ... if (!country && parsed.length) ... }
LabelFallback(label, city, region, country) ==
    LET segments == LabelParts(label)
        fallback == ~Truthy(city) \/ ~Truthy(country)
    IN Resolved(IF fallback /\ ~Truthy(city) /\ Len(segments) >= 2
                THEN Str(segments[1]) ELSE city,
                IF fallback /\ ~Truthy(region) /\ Len(segments) >= 3
                THEN Str(segments[2]) ELSE region,
                IF fallback /\ ~Truthy(country) /\ Len(segments) >= 1
                THEN Str(segments[Len(segments)]) ELSE country)

\* buildHeadquarters(entities, headquartersId) for a headquarters entity that
\* was found: label is its English label, admin1 the entity of its P131 and
\* admin2 the entity of admin1's P131 (Null when missing or not fetched),
\* countryLabel the label of its P17, coordinates its P625.
buildHeadquarters(label, admin1, admin2, countryLabel, coordinates) ==
    LET Record(filled) ==
            Headquarters(label, label, Or(filled.city, Null), Or(filled.region, Null),
                         Or(filled.country, Null), coordinates)
    IN Record(LabelFallback(label, GraphCity(admin1, admin2), GraphRegion(admin1, admin2),
                            countryLabel))

\* headquarters: hqStruct || (wiki.headquarters ? {...} : null)
MergedHeadquarters(hqStruct, wikiHeadquarters) ==
    IF Truthy(hqStruct) THEN hqStruct
    ELSE IF Truthy(wikiHeadquarters) THEN FreeTextHeadquarters(wikiHeadquarters)
    ELSE Null

\* domainToUrl(domain)
domainToUrl(domain) == <<"h", "t", "t", "p", "s", ":", "/", "/">> \o domain \o <<"/">>

Q_ACME == <<"A", "c", "m", "e">>
DOMAIN_ACME == <<"a", "c", "m", "e", ".", "c", "o">>

\* What the caller asked for: q of the name-first handler, domain of the
\* domain-first handler.
Request(h) == IF h = "name" THEN Q_ACME ELSE DOMAIN_ACME

websiteUrl == domainToUrl(DOMAIN_ACME)

\* Variant: the Wikidata label is not used as a name.
MergedName_NoLabel(h, wikiName, baseName) == Or(wikiName, Str(Request(h)))

\* name: wiki.name || q (name-first), wiki.name || baseName || domain (domain-first)
MergedName(h, wikiName, baseName) ==
    IF h = "name" THEN Or(wikiName, Str(Request(h)))
    ELSE Or(Or(wikiName, baseName), Str(Request(h)))

\* website: enriched.website || wiki.website || null (name-first),
\*          enriched.website || wiki.website || websiteUrl (domain-first)
MergedWebsite(h, enrichedWebsite, wikiWebsite) ==
    Or(Or(enrichedWebsite, wikiWebsite), IF h = "name" THEN Null ELSE Str(websiteUrl))

\* employees = enriched.employees || wikiEmployeesParsed || null
MergedEmployees(enrichedEmployees, wikiParsed) == Or(Or(enrichedEmployees, wikiParsed), Null)

\* type: enriched.type || wiki.type || null
MergedType(enrichedType, wikiType) == Or(Or(enrichedType, wikiType), Null)

-----------------------------------------------------------------------------
(* The handlers as a run: look the entity up, scrape the infobox, merge    *)

URL_WIKIDATA ==
    <<"h", "t", "t", "p", "s", ":", "/", "/", "a", "c", "m", "e", ".", "c", "o", "m", "/">>
URL_INFOBOX ==
    <<"h", "t", "t", "p", ":", "/", "/", "a", "c", "m", "e", ".", "o", "r", "g">>
LABEL_ACME == <<"A", "c", "m", "e", " ", "I", "n", "c">>
HEADING_ACME == <<"A", "c", "m", "e", " ", "C", "o", "r", "p">>
IND_TECH == <<"T", "e", "c", "h">>
IND_AI == <<"A", "I">>
IND_TECH_PADDED == <<" ", "T", "e", "c", "h", " ">>
IND_BLANK == <<" ", " ">>
TYPE_PUBLIC == <<"P", "u", "b", "l", "i", "c">>
TYPE_BUSINESS == <<"B", "u", "s", "i", "n", "e", "s", "s">>
TYPE_PRIVATE == <<"P", "r", "i", "v", "a", "t", "e">>
HQ_TEXT == <<"P", "a", "r", "i", "s", ",", " ", "F", "r", "a", "n", "c", "e">>
HQ_LYON == <<"L", "y", "o", "n">>
HQ_FRANCE == <<"F", "r", "a", "n", "c", "e">>
HQ_RHONE == <<"R", "h", "o", "n", "e">>
HQ_MOUNTAIN_VIEW ==
    <<"M", "o", "u", "n", "t", "a", "i", "n", " ", "V", "i", "e", "w", ",", " ",
      "C", "a", "l", "i", "f", "o", "r", "n", "i", "a", ",", " ",
      "U", "n", "i", "t", "e", "d", " ", "S", "t", "a", "t", "e", "s">>
SPEC_SEARCH == <<"S", "e", "a", "r", "c", "h">>
SIZE_SMALL == <<"3", "0">>
SIZE_COUNT_YEAR ==
    <<"1", "8", "2", ",", "5", "0", "2", " ", "(", "2", "0", "2", "4", ")">>
SIZE_COUNT_MONTH_YEAR ==
    <<"1", "8", "2", ",", "5", "0", "2", " ", "(", "J", "u", "n", "e", " ",
      "2", "0", "2", "4", ")">>

\* The headquarters entity (P159) as the lookups found it.
HqEntity(label, admin1, admin2, countryLabel, coordinates) ==
    [k |-> "entity", label |-> label, admin1 |-> admin1, admin2 |-> admin2,
     countryLabel |-> countryLabel, coordinates |-> coordinates]

\* hqStruct = await buildHeadquarters(extended, headquartersId): null when the
\* entity has no P159 or the P159 entity was not found.
StructuredHq(hq) ==
    IF hq = Null THEN Null
    ELSE buildHeadquarters(hq.label, hq.admin1, hq.admin2, hq.countryLabel, hq.coordinates)

\* A headquarters labelled Lyon, located in the city of Lyon, in France.
HQ_IN_CITY == HqEntity(Str(HQ_LYON), Place(Str(HQ_LYON), TRUE), Null, Str(HQ_FRANCE), Null)

\* ... located in the Rhone department, itself located in the city of Lyon.
HQ_IN_REGION ==
    HqEntity(Str(HQ_LYON), Place(Str(HQ_RHONE), FALSE), Place(Str(HQ_LYON), TRUE),
             Str(HQ_FRANCE), Null)

\* A headquarters with a three-part label and neither P131 nor P17.
HQ_LABEL_ONLY == HqEntity(Str(HQ_MOUNTAIN_VIEW), Null, Null, Null, Null)

\* A headquarters without an English label, P131 and P17.
HQ_UNLABELLED == HqEntity(Null, Null, Null, Null, Null)

\* What buildHeadquarters returns for the headquarters in the city of Lyon.
HQ_STRUCT == StructuredHq(HQ_IN_CITY)

StatementById(id) == CHOOSE st \in StatementPool : st.id = id

\* The values the Wikidata entity may carry.
WebsiteChoices == {Null, Str(URL_WIKIDATA)}
P1128Choices ==
    {Null, List(<<StatementById("s1")>>), List(<<StatementById("s3")>>),
     List(<<StatementById("s5")>>), List(<<StatementById("s7")>>)}
IndustryLabelChoices == {<<>>, <<Str(IND_TECH), Str(IND_AI)>>}
TypeLabelChoices == {<<>>, <<TYPE_PUBLIC, TYPE_BUSINESS>>}
HeadquartersChoices == {Null, HQ_IN_CITY, HQ_IN_REGION, HQ_LABEL_ONLY, HQ_UNLABELLED}
LabelChoices == {Null, Str(LABEL_ACME)}

\* The values scrapeWikipediaInfobox may return.
InfoboxChoices ==
    [name : {Null, Str(HEADING_ACME)},
     website : {Null, Str(URL_INFOBOX)},
     company_size : {Null, Str(SIZE_SMALL), Str(SIZE_COUNT_YEAR), Str(SIZE_COUNT_MONTH_YEAR)},
     industry : {Null, List(<<Str(IND_TECH)>>)},
     headquarters : {Null, Str(HQ_TEXT), Str(HQ_MOUNTAIN_VIEW)},
     type : {Null, Str(TYPE_PRIVATE)},
     specialties : {Null, List(<<Str(SPEC_SEARCH)>>)}]

\* let enriched = {}
NoEnriched == [website |-> Null, employees |-> Null, industry |-> Null, type |-> Null]

\* let wikipediaUrl = null; let baseName = null; let hqStruct = null
\* (wikipediaUrl: whether the handler has the URL of a Wikipedia page)
NoLocals(h) == [hqStruct |-> Null, baseName |-> Null, wikipediaUrl |-> FALSE]

\* What the request may carry as q or domain: nothing, a blank text, the
\* company's name or domain, or a JSON value that is not a text.
NOT_TEXT == 5
InputChoices(h) == {Null, Str(<<" ">>), Str(Request(h)), Num(NOT_TEXT)}

\* (x || "").trim() raises when x is truthy and has no trim method.
InputRaises(x) == Truthy(x) /\ x.k # "str"

\* normalizeDomainInput(input): trimmed, reduced to the hostname when it is an
\* http(s) URL that parses, without a leading "www.", lower-cased; null for "".
normalizeDomainInput(x) ==
    LET www == <<"w", "w", "w", ".">>
        HostOf(d, url) == IF IsAbsoluteHttp(d) /\ url # Null THEN url.s ELSE d
        Bare(host) == IF StartsWith(LowerCased(host), www)
                      THEN SubSeq(host, 5, Len(host)) ELSE host
        Normal(d) == Str(LowerCased(Bare(HostOf(d, ParseHostname(d)))))
    IN IF ~Truthy(x) THEN Null ELSE Normal(Trim(x.s))

\* q = (req.query?.q || req.body?.q || "").trim() of the name-first handler,
\* domain = normalizeDomainInput((... || "").trim()) of the domain-first one.
Normalized(h, x) ==
    LET text == Str(Trim(Or(x, Str(<<>>)).s))
    IN IF h = "name" THEN text ELSE normalizeDomainInput(text)

\* Whether the handler launches a browser: always once the name-first handler
\* has its title, only with an English Wikipedia sitelink in the domain-first.
NeedsBrowser(h, wikipediaUrl) == h = "name" \/ wikipediaUrl

\* Variant: the finally block does not close the browser.
AfterFinally_NoClose(b) == b

\* finally { if (browser) { try { await browser.close(); } catch {} } }
AfterFinally(b) == IF b = "open" THEN "closed" ELSE b

HandlerStart ==
    /\ handler \in {"name", "domain"}
    /\ hPc = "validate"
    /\ status = 0
    /\ responses = 0
    /\ input \in InputChoices(handler)
    /\ browser = "none"
    /\ launches = 0
    /\ failure = "none"
    /\ entity = Null
    /\ enriched = NoEnriched
    /\ wdLocals = NoLocals(handler)
    /\ infobox = Null
    /\ wiki = Null
    /\ wikiEmployeesParsed = Null
    /\ merged = Null

Init == HandlerStart /\ SelOff /\ ParseOff /\ IndustryOff /\ TickerOff /\ SocialOff /\ UrlOff /\ HqOff /\ ConcOff

AfterLookup(h) == IF h = "name" THEN "merge" ELSE "scrape"
AfterScrape(h) == IF h = "name" THEN "lookup" ELSE "merge"

\* The Wikidata entity was found: extractFromWikidata, label resolution and
\* buildHeadquarters give the structured values.
\* res.status(code).json(...), then finally { if (browser) close }.
Respond(code, launched) ==
    /\ status' = code
    /\ responses' = responses + 1
    /\ browser' = AfterFinally(launched)

\* catch (err): the bindings of the try block are out of scope.
Caught ==
    /\ entity' = Null
    /\ enriched' = NoEnriched
    /\ wdLocals' = NoLocals(handler)
    /\ infobox' = Null
    /\ wiki' = Null
    /\ wikiEmployeesParsed' = Null
    /\ merged' = Null

\* if (!q) / if (!domain): res.status(400)...; return;
RejectInput ==
    /\ hPc = "validate"
    /\ ~InputRaises(input)
    /\ ~Truthy(Normalized(handler, input))
    /\ Respond(400, browser)
    /\ hPc' = "rejected"
    /\ UNCHANGED <<handler, input, launches, failure, entity, enriched, wdLocals, infobox,
                   wiki, wikiEmployeesParsed, merged>>
    /\ UNCHANGED <<selVars, parseVars, industryVars, tickerVars, socialVars, urlVars, hqVars, concVars>>

\* The parameter is a text that is not blank: the handler goes on.
AcceptInput ==
    /\ hPc = "validate"
    /\ ~InputRaises(input)
    /\ Normalized(handler, input) = Str(Request(handler))
    /\ hPc' = (IF handler = "name" THEN "search" ELSE "lookup")
    /\ UNCHANGED <<handler, status, responses, input, browser, launches, failure, entity,
                   enriched, wdLocals, infobox, wiki, wikiEmployeesParsed, merged>>
    /\ UNCHANGED <<selVars, parseVars, industryVars, tickerVars, socialVars, urlVars, hqVars, concVars>>

\* (req.query?.q || req.body?.q || "").trim() on a value that has no trim
\* method: the TypeError is raised before the try block, the handler's
\* promise rejects and the handler sends nothing.
InputThrows ==
    /\ hPc = "validate"
    /\ InputRaises(input)
    /\ hPc' = "crashed"
    /\ UNCHANGED <<handler, status, responses, input, browser, launches, failure, entity,
                   enriched, wdLocals, infobox, wiki, wikiEmployeesParsed, merged>>
    /\ UNCHANGED <<selVars, parseVars, industryVars, tickerVars, socialVars, urlVars, hqVars, concVars>>

\* puppeteer's launch() rejected: there is no browser, the catch answers 500.
LaunchThrows ==
    /\ hPc = "scrape"
    /\ NeedsBrowser(handler, wdLocals.wikipediaUrl)
    /\ Respond(500, browser)
    /\ hPc' = "failed"
    /\ Caught
    /\ UNCHANGED <<handler, input, launches, failure>>
    /\ UNCHANGED <<selVars, parseVars, industryVars, tickerVars, socialVars, urlVars, hqVars, concVars>>

\* const title = await wikipediaSearchTitle(q) found a page (name-first).
FindTitle ==
    /\ hPc = "search"
    /\ wdLocals' = [wdLocals EXCEPT !.wikipediaUrl = TRUE]
    /\ hPc' = "scrape"
    /\ UNCHANGED <<handler, status, failure, entity, enriched, infobox, wiki,
                   wikiEmployeesParsed, merged>>
    /\ UNCHANGED <<input, browser, launches, responses>>
    /\ UNCHANGED <<selVars, parseVars, industryVars, tickerVars, socialVars, urlVars, hqVars, concVars>>

\* if (!title) { res.status(404)...; return; }
NoTitle ==
    /\ hPc = "search"
    /\ Respond(404, browser)
    /\ hPc' = "notfound"
    /\ UNCHANGED <<handler, failure, entity, enriched, wdLocals, infobox, wiki,
                   wikiEmployeesParsed, merged>>
    /\ UNCHANGED <<input, launches>>
    /\ UNCHANGED <<selVars, parseVars, industryVars, tickerVars, socialVars, urlVars, hqVars, concVars>>

\* The entity was found, but getWikidataEntities threw (fetch rejected or the
\* body was not JSON) when resolving the labels or, inside buildHeadquarters,
\* the headquarters' hierarchy: the handler's catch answers with status 500.
LookupThrows ==
    /\ hPc = "lookup"
    /\ failure' \in {"labels", "hierarchy"}
    /\ Respond(500, browser)
    /\ hPc' = "failed"
    /\ Caught
    /\ UNCHANGED handler
    /\ UNCHANGED <<input, launches>>
    /\ UNCHANGED <<selVars, parseVars, industryVars, tickerVars, socialVars, urlVars, hqVars, concVars>>

\* page.goto timed out or failed inside scrapeWikipediaInfobox: status 500.
ScrapeThrows ==
    /\ hPc = "scrape"
    /\ NeedsBrowser(handler, wdLocals.wikipediaUrl)
    /\ launches' = launches + 1
    /\ failure' = "infobox"
    /\ Respond(500, "open")
    /\ hPc' = "failed"
    /\ Caught
    /\ UNCHANGED handler
    /\ UNCHANGED input
    /\ UNCHANGED <<selVars, parseVars, industryVars, tickerVars, socialVars, urlVars, hqVars, concVars>>

\* fetchFinnhubQuote, fetchYahooFinance or fetchOpenCorporates threw (fetch
\* rejected or the body was not JSON): status 500.
EnrichmentThrows ==
    /\ hPc = "merge"
    /\ failure' \in {"quote", "registry"}
    /\ Respond(500, browser)
    /\ hPc' = "failed"
    /\ Caught
    /\ UNCHANGED handler
    /\ UNCHANGED <<input, launches>>
    /\ UNCHANGED <<selVars, parseVars, industryVars, tickerVars, socialVars, urlVars, hqVars, concVars>>

LookupEntity ==
    /\ hPc = "lookup"
    /\ \E website \in WebsiteChoices, p1128 \in P1128Choices,
          industries \in IndustryLabelChoices, types \in TypeLabelChoices,
          hq \in HeadquartersChoices, label \in LabelChoices, enwiki \in BOOLEAN :
          /\ handler = "name" => enwiki
          /\ entity' = [website |-> website, p1128 |-> p1128, industries |-> industries,
                        types |-> types, hq |-> hq, label |-> label, enwiki |-> enwiki]
          /\ enriched' =
                [website |-> Or(website, IF handler = "name" THEN Null ELSE Str(websiteUrl)),
                 employees |-> Or(ExtractEmployees(p1128), Null),
                 industry |-> IF Len(industries) > 0 THEN List(industries) ELSE Null,
                 type |-> IF Len(types) > 0 THEN Str(Join(types, <<",", " ">>)) ELSE Null]
          /\ wdLocals' =
                [hqStruct |-> StructuredHq(hq),
                 baseName |-> IF handler = "name" THEN Null ELSE Or(label, Null),
                 wikipediaUrl |-> enwiki]
    /\ hPc' = AfterLookup(handler)
    /\ UNCHANGED <<handler, status, failure, infobox, wiki, wikiEmployeesParsed, merged>>
    /\ UNCHANGED <<input, browser, launches, responses>>
    /\ UNCHANGED <<selVars, parseVars, industryVars, tickerVars, socialVars, urlVars, hqVars, concVars>>

\* No Wikidata entity was found: enriched stays {}.
NoEntity ==
    /\ hPc = "lookup"
    /\ hPc' = AfterLookup(handler)
    /\ UNCHANGED <<handler, status, failure, entity, enriched, wdLocals, infobox, wiki,
                   wikiEmployeesParsed, merged>>
    /\ UNCHANGED <<input, browser, launches, responses>>
    /\ UNCHANGED <<selVars, parseVars, industryVars, tickerVars, socialVars, urlVars, hqVars, concVars>>

\* scrapeWikipediaInfobox(browser, wikipediaUrl); the domain-first handler then
\* fills a missing website in.
ScrapeInfobox ==
    /\ hPc = "scrape"
    /\ NeedsBrowser(handler, wdLocals.wikipediaUrl)
    /\ browser' = "open"
    /\ launches' = launches + 1
    /\ \E data \in InfoboxChoices :
          /\ infobox' = data
          /\ wiki' = IF handler = "domain" /\ ~Truthy(data.website)
                     THEN [data EXCEPT !.website = Or(enriched.website, Str(websiteUrl))]
                     ELSE data
    /\ hPc' = AfterScrape(handler)
    /\ UNCHANGED <<handler, status, failure, entity, enriched, wdLocals, wikiEmployeesParsed, merged>>
    /\ UNCHANGED <<input, responses>>
    /\ UNCHANGED <<selVars, parseVars, industryVars, tickerVars, socialVars, urlVars, hqVars, concVars>>

\* The domain-first handler has no Wikipedia URL: wiki keeps its default.
SkipScrape ==
    /\ hPc = "scrape"
    /\ ~NeedsBrowser(handler, wdLocals.wikipediaUrl)
    /\ wiki' = [name |-> Or(wdLocals.baseName, Null),
                website |-> Or(enriched.website, Str(websiteUrl)),
                company_size |-> Null, industry |-> Null, headquarters |-> Null,
                type |-> Null, specialties |-> Null]
    /\ hPc' = AfterScrape(handler)
    /\ UNCHANGED <<handler, status, failure, entity, enriched, wdLocals, infobox, wikiEmployeesParsed, merged>>
    /\ UNCHANGED <<input, browser, launches, responses>>
    /\ UNCHANGED <<selVars, parseVars, industryVars, tickerVars, socialVars, urlVars, hqVars, concVars>>

\* parseEmployeesString(wiki.company_size), the merged record, the homepage's
\* social links (fetchCompanySocials returns null when its fetch fails) and
\* res.status(200).
Merge ==
    /\ hPc = "merge"
    /\ wikiEmployeesParsed' = parseEmployeesString(wiki.company_size, hostTZ)
    /\ merged' =
          [name |-> MergedName(handler, wiki.name, wdLocals.baseName),
           website |-> MergedWebsite(handler, enriched.website, wiki.website),
           employees |-> MergedEmployees(enriched.employees, wikiEmployeesParsed'),
           industry |-> MergedIndustry(wiki.industry, enriched.industry),
           headquarters |-> MergedHeadquarters(wdLocals.hqStruct, wiki.headquarters),
           type |-> MergedType(enriched.type, wiki.type),
           specialties |-> List(unique(ItemsOf(wiki.specialties)))]
    /\ \E homepage \in {"fetched", "unavailable"} :
          failure' = IF homepage = "unavailable" THEN "homepage" ELSE "none"
    /\ Respond(200, browser)
    /\ hPc' = "done"
    /\ UNCHANGED <<handler, entity, enriched, wdLocals, infobox, wiki>>
    /\ UNCHANGED <<input, launches>>
    /\ UNCHANGED <<selVars, parseVars, industryVars, tickerVars, socialVars, urlVars, hqVars, concVars>>

Next ==
    \/ RejectInput \/ AcceptInput \/ InputThrows
    \/ FindTitle \/ NoTitle \/ LaunchThrows
    \/ LookupEntity \/ NoEntity \/ LookupThrows
    \/ ScrapeInfobox \/ SkipScrape \/ ScrapeThrows
    \/ EnrichmentThrows \/ Merge

Spec == Init /\ [][Next]_vars

-----------------------------------------------------------------------------
(* The industry union as a run: build the two lists, then merge them       *)

IndustryPool == {IND_TECH, IND_AI, IND_TECH_PADDED, IND_BLANK}

MaxItems == 2

IndustryStart ==
    /\ ftIndustry = Null
    /\ wdIndustry = Null
    /\ industryOut = Null
    /\ indPc = "build"

IndustryInit == IndustryStart /\ SelOff /\ ParseOff /\ HandlerOff /\ TickerOff /\ SocialOff /\ UrlOff /\ HqOff /\ ConcOff

\* cellToArray found one more industry in the infobox cell: its items are
\* normalized, non-empty and distinct.
AddFreeTextIndustry ==
    /\ indPc = "build"
    /\ \E w \in IndustryPool :
          LET cur == ItemsOf(ftIndustry)
          IN /\ Len(cur) < MaxItems
             /\ w = Trim(w) /\ w # <<>>
             /\ \A i \in 1..Len(cur) : cur[i] # Str(w)
             /\ ftIndustry' = List(Append(cur, Str(w)))
    /\ UNCHANGED <<wdIndustry, industryOut, indPc>>
    /\ UNCHANGED <<selVars, parseVars, handlerVars, tickerVars, socialVars, urlVars, hqVars, concVars>>

\* resolveLabels found the label of one more P452 industry.
AddStructuredIndustry ==
    /\ indPc = "build"
    /\ \E w \in IndustryPool :
          LET cur == ItemsOf(wdIndustry)
          IN /\ Len(cur) < MaxItems
             /\ wdIndustry' = List(Append(cur, Str(w)))
    /\ UNCHANGED <<ftIndustry, industryOut, indPc>>
    /\ UNCHANGED <<selVars, parseVars, handlerVars, tickerVars, socialVars, urlVars, hqVars, concVars>>

\* merged.industry is computed.
MergeIndustry ==
    /\ indPc = "build"
    /\ industryOut' = MergedIndustry(ftIndustry, wdIndustry)
    /\ indPc' = "done"
    /\ UNCHANGED <<ftIndustry, wdIndustry>>
    /\ UNCHANGED <<selVars, parseVars, handlerVars, tickerVars, socialVars, urlVars, hqVars, concVars>>

IndustryNext == AddFreeTextIndustry \/ AddStructuredIndustry \/ MergeIndustry

SpecIndustry == IndustryInit /\ [][IndustryNext]_vars

-----------------------------------------------------------------------------
(* choosePrimaryTicker                                                     *)

ToUpper(ch) ==
    IF ch \in LowerLetters
    THEN UpperSeq[CHOOSE i \in 1..26 : LowerSeq[i] = ch]
    ELSE ch

\* s.toUpperCase()
ToUpperCase(s) == [i \in 1..Len(s) |-> ToUpper(s[i])]

\* s.includes(sub)
Includes(s, sub) ==
    \E i \in 0..(Len(s) - Len(sub)) : SubSeq(s, i + 1, i + Len(sub)) = sub

NASDAQ == <<"N", "A", "S", "D", "A", "Q">>
NYSE == <<"N", "Y", "S", "E">>
NYSE_ARCA == <<"N", "Y", "S", "E", " ", "A", "R", "C", "A">>
NYSE_AMERICAN_UPPER == <<"N", "Y", "S", "E", " ", "A", "M", "E", "R", "I", "C", "A", "N">>
NYSE_AMERICAN_MIXED == <<"N", "Y", "S", "E", " ", "A", "m", "e", "r", "i", "c", "a", "n">>
LSE == <<"L", "S", "E">>
TSE == <<"T", "S", "E">>
HKEX == <<"H", "K", "E", "X">>

\* EXCHANGE_PREFERENCE of api/company-by-domain.js and of the current api/company.js
EXCHANGE_PREFERENCE ==
    <<NASDAQ, NYSE, NYSE_ARCA, NYSE_AMERICAN_UPPER, LSE, TSE, HKEX>>

\* EXCHANGE_PREFERENCE of the older api/company.js
EXCHANGE_PREFERENCE_OLD ==
    <<NASDAQ, NYSE, NYSE_ARCA, NYSE_AMERICAN_MIXED, LSE, TSE, HKEX>>

\* (t.exchange || "").toUpperCase().includes(pref)
OnExchange(t, pref) == Includes(ToUpperCase(Or(t.exchange, Str(<<>>)).s), pref)

\* Variant: the candidates are scanned first, the ranking second.
choosePrimaryTicker_InputOrderFirst(arr, prefs) ==
    IF arr = Null \/ Len(arr.items) = 0 THEN Null
    ELSE LET xs == arr.items
             hits == {i \in 1..Len(xs) : \E r \in 1..Len(prefs) : OnExchange(xs[i], prefs[r])}
         IN IF hits = {} THEN xs[1].symbol ELSE xs[Min(hits)].symbol

\* Variant: no fallback to the first candidate.
choosePrimaryTicker_NoFallback(arr, prefs) ==
    IF arr = Null \/ Len(arr.items) = 0 THEN Null
    ELSE LET xs == arr.items
             hits(r) == {i \in 1..Len(xs) : OnExchange(xs[i], prefs[r])}
             ranked == {r \in 1..Len(prefs) : hits(r) # {}}
         IN IF ranked = {} THEN Null ELSE xs[Min(hits(Min(ranked)))].symbol

\* choosePrimaryTicker(arr) with the variant's EXCHANGE_PREFERENCE
choosePrimaryTicker(arr, prefs) ==
    IF arr = Null \/ Len(arr.items) = 0 THEN Null
    ELSE LET xs == arr.items
             hits(r) == {i \in 1..Len(xs) : OnExchange(xs[i], prefs[r])}
             ranked == {r \in 1..Len(prefs) : hits(r) # {}}
         IN IF ranked = {} THEN xs[1].symbol ELSE xs[Min(hits(Min(ranked)))].symbol

-----------------------------------------------------------------------------
(* The ticker run: resolve the candidates, choose one, fetch its quote     *)

EX_NASDAQ == <<"N", "a", "s", "d", "a", "q">>
EX_NYSE_AMERICAN == NYSE_AMERICAN_MIXED
EX_LSE == LSE
EX_EURONEXT == <<"E", "u", "r", "o", "n", "e", "x", "t">>

\* What the exchange label of a candidate may be (null when P414 is missing
\* or its label did not resolve).
ExchangeLabels == {Null, Str(EX_NASDAQ), Str(EX_NYSE_AMERICAN), Str(EX_LSE), Str(EX_EURONEXT)}

MaxTickers == 3

\* The symbol of the i-th P249 statement.
SymbolAt(i) == Str(<<"T">> \o DecimalString(i))

TickerStart ==
    /\ exchangePreference \in {EXCHANGE_PREFERENCE, EXCHANGE_PREFERENCE_OLD}
    /\ tickers = List(<<>>)
    /\ primaryTicker = Null
    /\ finnhubKey \in BOOLEAN
    /\ financials = Null
    /\ quotedBy = Null
    /\ financeSource = Null
    /\ tickPc = "build"

TickerInit == TickerStart /\ SelOff /\ ParseOff /\ HandlerOff /\ IndustryOff /\ SocialOff /\ UrlOff /\ HqOff /\ ConcOff

\* The entity carries one more P249 statement.
AddTicker ==
    /\ tickPc = "build"
    /\ Len(tickers.items) < MaxTickers
    /\ \E ex \in ExchangeLabels :
          tickers' = List(Append(tickers.items,
                                 [symbol |-> SymbolAt(Len(tickers.items) + 1), exchange |-> ex]))
    /\ UNCHANGED <<exchangePreference, primaryTicker, finnhubKey, financials, quotedBy,
                   financeSource, tickPc>>
    /\ UNCHANGED <<selVars, parseVars, handlerVars, industryVars, socialVars, urlVars, hqVars, concVars>>

\* const primaryTicker = choosePrimaryTicker(tickers)
ChoosePrimaryTicker ==
    /\ tickPc = "build"
    /\ primaryTicker' = choosePrimaryTicker(tickers, exchangePreference)
    /\ tickPc' = "quote"
    /\ UNCHANGED <<exchangePreference, tickers, finnhubKey, financials, quotedBy,
                   financeSource>>
    /\ UNCHANGED <<selVars, parseVars, handlerVars, industryVars, socialVars, urlVars, hqVars, concVars>>

\* A quote object: { ticker, market_cap, stock_price }.
Quote(symbol, cap, price) ==
    [k |-> "quote", ticker |-> symbol, market_cap |-> cap, stock_price |-> price]

FINNHUB == Str(<<"F", "i", "n", "n", "h", "u", "b">>)
YAHOO_FINANCE == Str(<<"Y", "a", "h", "o", "o", "F", "i", "n", "a", "n", "c", "e">>)

PRICE_FINNHUB == 150
PRICE_YAHOO == 151

\* What a provider's endpoint may answer: a body carrying a price, a body
\* without one (or a non-OK status), or no answer at all (fetch rejects or
\* the body is not JSON).
ProviderAnswers == {"price", "nothing", "throws"}

\* fetchFinnhubQuote(symbol): null without a key, else { stock_price: j.c }.
fetchFinnhubQuote(symbol, key, answer) ==
    IF ~key \/ ~Truthy(symbol) THEN Null
    ELSE IF answer = "price" THEN Quote(Null, Null, Num(PRICE_FINNHUB))
    ELSE Null

\* fetchYahooFinance(symbol): { stock_price, market_cap } of the first result,
\* here one without a numeric market capitalisation.
fetchYahooFinance(symbol, answer) ==
    IF ~Truthy(symbol) THEN Null
    ELSE IF answer = "price" THEN Quote(Null, Null, Num(PRICE_YAHOO))
    ELSE Null

\* Whether fetchFinnhubQuote reaches its fetch.
CallsFinnhub(symbol, key) == key /\ Truthy(symbol)

\* finance: financials ? (process.env.FINNHUB_API_KEY ? "Finnhub" : "YahooFinance") : null
FinanceSource(quote, key) ==
    IF Truthy(quote) THEN (IF key THEN FINNHUB ELSE YAHOO_FINANCE) ELSE Null

\* if (primaryTicker) financials = await fetchFinnhubQuote(primaryTicker)
\*                               || await fetchYahooFinance(primaryTicker)
\* and then the response's source.finance.
FetchQuote ==
    /\ tickPc = "quote"
    /\ \E finnhub \in ProviderAnswers, yahoo \in ProviderAnswers :
          LET first == fetchFinnhubQuote(primaryTicker, finnhubKey, finnhub)
              second == fetchYahooFinance(primaryTicker, yahoo)
              quote == Or(first, second)
              by == IF Truthy(first) THEN FINNHUB
                    ELSE IF Truthy(second) THEN YAHOO_FINANCE ELSE Null
          IN /\ Truthy(primaryTicker)
             /\ ~(CallsFinnhub(primaryTicker, finnhubKey) /\ finnhub = "throws")
             /\ Truthy(first) \/ yahoo # "throws"
             /\ financials' = IF Truthy(quote)
                              THEN [quote EXCEPT !.ticker = primaryTicker] ELSE Null
             /\ quotedBy' = by
             /\ financeSource' = FinanceSource(quote, finnhubKey)
    /\ tickPc' = "done"
    /\ UNCHANGED <<exchangePreference, tickers, primaryTicker, finnhubKey>>
    /\ UNCHANGED <<selVars, parseVars, handlerVars, industryVars, socialVars, urlVars, hqVars, concVars>>

\* No primary ticker: no provider is asked.
SkipQuote ==
    /\ tickPc = "quote"
    /\ ~Truthy(primaryTicker)
    /\ financeSource' = FinanceSource(financials, finnhubKey)
    /\ tickPc' = "done"
    /\ UNCHANGED <<exchangePreference, tickers, primaryTicker, finnhubKey, financials,
                   quotedBy>>
    /\ UNCHANGED <<selVars, parseVars, handlerVars, industryVars, socialVars, urlVars, hqVars, concVars>>

\* A provider's fetch rejects or its body is not JSON: the exception leaves
\* the handler's try block and the request is answered with status 500.
QuoteThrows ==
    /\ tickPc = "quote"
    /\ Truthy(primaryTicker)
    /\ tickPc' = "failed"
    /\ UNCHANGED <<exchangePreference, tickers, primaryTicker, finnhubKey, financials,
                   quotedBy, financeSource>>
    /\ UNCHANGED <<selVars, parseVars, handlerVars, industryVars, socialVars, urlVars, hqVars, concVars>>

TickerNext == AddTicker \/ ChoosePrimaryTicker \/ FetchQuote \/ SkipQuote \/ QuoteThrows

SpecTicker == TickerInit /\ [][TickerNext]_vars

-----------------------------------------------------------------------------
(* classifySocial and fetchCompanySocials                                  *)

\* SOCIAL_DOMAINS, in configuration order
SOCIAL_DOMAINS ==
    << [key |-> "x",
        domains |-> <<<<"x", ".", "c", "o", "m">>,
                      <<"t", "w", "i", "t", "t", "e", "r", ".", "c", "o", "m">>>>],
       [key |-> "facebook",
        domains |-> <<<<"f", "a", "c", "e", "b", "o", "o", "k", ".", "c", "o", "m">>>>],
       [key |-> "instagram",
        domains |-> <<<<"i", "n", "s", "t", "a", "g", "r", "a", "m", ".", "c", "o", "m">>>>],
       [key |-> "youtube",
        domains |-> <<<<"y", "o", "u", "t", "u", "b", "e", ".", "c", "o", "m">>,
                      <<"y", "o", "u", "t", "u", ".", "b", "e">>>>],
       [key |-> "linkedin",
        domains |-> <<<<"l", "i", "n", "k", "e", "d", "i", "n", ".", "c", "o", "m">>>>],
       [key |-> "tiktok",
        domains |-> <<<<"t", "i", "k", "t", "o", "k", ".", "c", "o", "m">>>>],
       [key |-> "github",
        domains |-> <<<<"g", "i", "t", "h", "u", "b", ".", "c", "o", "m">>>>],
       [key |-> "medium",
        domains |-> <<<<"m", "e", "d", "i", "u", "m", ".", "c", "o", "m">>>>],
       [key |-> "reddit",
        domains |-> <<<<"r", "e", "d", "d", "i", "t", ".", "c", "o", "m">>>>],
       [key |-> "threads",
        domains |-> <<<<"t", "h", "r", "e", "a", "d", "s", ".", "n", "e", "t">>>>],
       [key |-> "bluesky",
        domains |-> <<<<"b", "s", "k", "y", ".", "a", "p", "p">>>>],
       [key |-> "mastodon",
        domains |-> <<<<"m", "a", "s", "t", "o", "d", "o", "n", ".", "s", "o", "c", "i", "a", "l">>,
                      <<"f", "o", "s", "s", "t", "o", "d", "o", "n", ".", "o", "r", "g">>,
                      <<"h", "a", "c", "h", "y", "d", "e", "r", "m", ".", "i", "o">>>>],
       [key |-> "pinterest",
        domains |-> <<<<"p", "i", "n", "t", "e", "r", "e", "s", "t", ".", "c", "o", "m">>>>] >>

Platform(key) == [k |-> "platform", key |-> key]

\* host === d || host.endsWith(`.${d}`)
HostMatches(host, d) == host = d \/ EndsWith(host, <<".">> \o d)

\* Variant: a host matches when it contains the domain anywhere.
classifySocial_Substring(url) ==
    LET host == ParseHostname(url)
        hit(i) == \E j \in 1..Len(SOCIAL_DOMAINS[i].domains) :
                      Includes(host.s, SOCIAL_DOMAINS[i].domains[j])
        hits == IF host = Null THEN {} ELSE {i \in 1..Len(SOCIAL_DOMAINS) : hit(i)}
    IN IF hits = {} THEN Null ELSE Platform(SOCIAL_DOMAINS[Min(hits)].key)

\* classifySocial(url)
classifySocial(url) ==
    LET host == ParseHostname(url)
        hit(i) == \E j \in 1..Len(SOCIAL_DOMAINS[i].domains) :
                      HostMatches(host.s, SOCIAL_DOMAINS[i].domains[j])
        hits == IF host = Null THEN {} ELSE {i \in 1..Len(SOCIAL_DOMAINS) : hit(i)}
    IN IF hits = {} THEN Null ELSE Platform(SOCIAL_DOMAINS[Min(hits)].key)

\* unique([...hrefs, ...relMe].filter(h => /^https?:\/\//i.test(h)))
LinksOf(page) ==
    LET all == [i \in 1..Len(page) |-> Str(page[i].href)]
        me == [i \in 1..Len(page) |-> IF page[i].me THEN Str(page[i].href) ELSE Null]
        relMe == SelectSeq(me, LAMBDA v : v # Null)
    IN unique(SelectSeq(all \o relMe, LAMBDA v : IsAbsoluteHttp(v.s)))

SocialMap(m) == [k |-> "map", m |-> m]

\* The stored entries of result, in the order their keys were set.
HasKey(result, key) == \E i \in 1..Len(result) : result[i].key = key

\* Variant: a later link of a platform replaces the stored one.
RECURSIVE ScanLinks_LastWins(_, _, _, _)
ScanLinks_LastWins(ls, keys, i, result) ==
    IF i > Len(ls) THEN result
    ELSE IF keys[i] = Null THEN ScanLinks_LastWins(ls, keys, i + 1, result)
    ELSE IF HasKey(result, keys[i].key)
    THEN ScanLinks_LastWins(ls, keys, i + 1,
            [n \in 1..Len(result) |->
                IF result[n].key = keys[i].key
                THEN [key |-> keys[i].key, url |-> ls[i]] ELSE result[n]])
    ELSE ScanLinks_LastWins(ls, keys, i + 1,
            Append(result, [key |-> keys[i].key, url |-> ls[i]]))

\* for (const link of links) { const key = classifySocial(link);
\*   if (key && !result[key]) result[key] = link; }
\* from the i-th link on, keys[i] being classifySocial(ls[i])
RECURSIVE ScanLinks(_, _, _, _)
ScanLinks(ls, keys, i, result) ==
    IF i > Len(ls) THEN result
    ELSE IF keys[i] # Null /\ ~HasKey(result, keys[i].key)
    THEN ScanLinks(ls, keys, i + 1, Append(result, [key |-> keys[i].key, url |-> ls[i]]))
    ELSE ScanLinks(ls, keys, i + 1, result)

\* return Object.keys(result).length ? result : null
SocialsOf(ls, keys) ==
    LET result == ScanLinks(ls, keys, 1, <<>>)
    IN IF Len(result) > 0 THEN SocialMap(result) ELSE Null

-----------------------------------------------------------------------------
(* The socials run: the page's links, then the scan                        *)

HREF_X ==
    <<"h", "t", "t", "p", "s", ":", "/", "/", "x", ".", "c", "o", "m", "/", "A", "c",
      "m", "e">>
HREF_WWW_X ==
    <<"h", "t", "t", "p", "s", ":", "/", "/", "w", "w", "w", ".", "X", ".", "c", "o",
      "m", "/", "A", "c", "m", "e">>
HREF_NOTX ==
    <<"h", "t", "t", "p", "s", ":", "/", "/", "N", "o", "t", "X", ".", "c", "o", "m",
      "/", "A", "c", "m", "e">>
HREF_TWITTER ==
    <<"h", "t", "t", "p", "s", ":", "/", "/", "t", "w", "i", "t", "t", "e", "r", ".",
      "c", "o", "m", "/", "a", "c", "m", "e">>
HREF_NOTFACEBOOK ==
    <<"h", "t", "t", "p", "s", ":", "/", "/", "n", "o", "t", "f", "a", "c", "e", "b",
      "o", "o", "k", ".", "c", "o", "m", ".", "e", "v", "i", "l", ".", "t", "l", "d",
      "/">>
HREF_FACEBOOK ==
    <<"H", "T", "T", "P", ":", "/", "/", "m", ".", "f", "a", "c", "e", "b", "o", "o",
      "k", ".", "c", "o", "m", "/", "a", "c", "m", "e">>
HREF_ACME ==
    <<"h", "t", "t", "p", "s", ":", "/", "/", "a", "c", "m", "e", ".", "c", "o", "/",
      "a", "b", "o", "u", "t">>
HREF_RELATIVE == <<"/", "a", "b", "o", "u", "t">>
HREF_MAILTO ==
    <<"m", "a", "i", "l", "t", "o", ":", "h", "i", "@", "x", ".", "c", "o", "m">>
HREF_USERINFO ==
    <<"h", "t", "t", "p", "s", ":", "/", "/", "x", ".", "c", "o", "m", "@", "e", "v",
      "i", "l", ".", "t", "l", "d", "/">>
HREF_X_PADDED ==
    <<"h", "t", "t", "p", "s", ":", "/", "/", "x", ".", "c", "o", "m", "/", "A", "c",
      "m", "e", " ">>
HREF_NO_HOST == <<"h", "t", "t", "p", "s", ":", "/", "/">>

HrefPool ==
    {HREF_X, HREF_WWW_X, HREF_NOTX, HREF_TWITTER, HREF_NOTFACEBOOK, HREF_FACEBOOK,
     HREF_ACME, HREF_RELATIVE, HREF_MAILTO, HREF_USERINFO, HREF_X_PADDED, HREF_NO_HOST}

MaxLinks == 2

SocialStart ==
    /\ hrefs = <<>>
    /\ links = <<>>
    /\ linkKeys = <<>>
    /\ social = Null
    /\ socPc = "build"

SocialInit == SocialStart /\ SelOff /\ ParseOff /\ HandlerOff /\ IndustryOff /\ TickerOff /\ UrlOff /\ HqOff /\ ConcOff

\* The page has one more href attribute, in an <a rel="me"> or not.
AddHref ==
    /\ socPc = "build"
    /\ Len(hrefs) < MaxLinks
    /\ \E h \in HrefPool, me \in BOOLEAN :
          hrefs' = Append(hrefs, [href |-> h, me |-> me])
    /\ UNCHANGED <<links, linkKeys, social, socPc>>
    /\ UNCHANGED <<selVars, parseVars, handlerVars, industryVars, tickerVars, urlVars, hqVars, concVars>>

\* The page was fetched: its links are collected and scanned.
ScanPage ==
    /\ socPc = "build"
    /\ links' = LinksOf(hrefs)
    /\ linkKeys' = [i \in 1..Len(links') |-> classifySocial(links'[i].s)]
    /\ social' = SocialsOf(links', linkKeys')
    /\ socPc' = "done"
    /\ UNCHANGED hrefs
    /\ UNCHANGED <<selVars, parseVars, handlerVars, industryVars, tickerVars, urlVars, hqVars, concVars>>

\* The fetch threw or the response was not OK: return null.
PageUnavailable ==
    /\ socPc = "build"
    /\ social' = Null
    /\ socPc' = "failed"
    /\ UNCHANGED <<hrefs, links, linkKeys>>
    /\ UNCHANGED <<selVars, parseVars, handlerVars, industryVars, tickerVars, urlVars, hqVars, concVars>>

SocialNext == AddHref \/ ScanPage \/ PageUnavailable

SpecSocial == SocialInit /\ [][SocialNext]_vars

-----------------------------------------------------------------------------
(* The URL-scrape handler as a run: validate the url, launch, navigate     *)

WIKIPEDIA_ORG == <<"w", "i", "k", "i", "p", "e", "d", "i", "a", ".", "o", "r", "g">>
WIKIPEDIA_COM == <<"w", "i", "k", "i", "p", "e", "d", "i", "a", ".", "c", "o", "m">>
HTTP_PROTOCOL == <<"h", "t", "t", "p", ":">>
HTTPS_PROTOCOL == <<"h", "t", "t", "p", "s", ":">>

\* new URL(str).protocol: the scheme, a letter followed by letters, digits,
\* "+", "-" or ".", lower-cased, with its colon; without one the constructor
\* throws (Null here).
UrlProtocol(str) ==
    LET SchemeOf(t, colons) ==
            IF colons = {} THEN Null
            ELSE LET scheme == SubSeq(t, 1, Min(colons) - 1)
                 IN IF /\ scheme # <<>>
                       /\ IsAlpha(scheme[1])
                       /\ \A i \in 1..Len(scheme) :
                             IsAlpha(scheme[i]) \/ IsDigit(scheme[i])
                                 \/ scheme[i] \in {"+", "-", "."}
                    THEN Str(LowerCased(scheme) \o <<":">>)
                    ELSE Null
        Parse(t) == SchemeOf(t, {i \in 1..Len(t) : t[i] = ":"})
    IN Parse(Trim(str))

\* isWikipediaUrl(str): the hostname ends with "wikipedia.org" or
\* "wikipedia.com" and the protocol is http: or https:; false when new URL
\* throws.  The host of a URL of another scheme is not read: the protocol
\* test fails for it whatever the host.
isWikipediaUrl(str) ==
    LET OnWikipedia(hostname) ==
            /\ hostname # Null
            /\ \/ EndsWith(hostname.s, WIKIPEDIA_ORG)
               \/ EndsWith(hostname.s, WIKIPEDIA_COM)
        OverHttp(protocol) ==
            protocol # Null /\ protocol.s \in {HTTP_PROTOCOL, HTTPS_PROTOCOL}
    IN OverHttp(UrlProtocol(str)) /\ OnWikipedia(ParseHostname(str))

UrlSchemes ==
    {<<"h", "t", "t", "p", "s", ":", "/", "/">>, <<"h", "t", "t", "p", ":", "/", "/">>,
     <<"H", "t", "t", "p", "s", ":", "/", "/">>, <<"f", "t", "p", ":", "/", "/">>}

UrlHosts ==
    {WIKIPEDIA_ORG, WIKIPEDIA_COM,
     <<"e", "n", ".">> \o WIKIPEDIA_ORG,
     <<"E", "N", ".", "W", "i", "k", "i", "p", "e", "d", "i", "a", ".", "o", "r", "g">>,
     <<"e", "v", "i", "l">> \o WIKIPEDIA_ORG,
     <<"n", "o", "t", "-">> \o WIKIPEDIA_COM,
     WIKIPEDIA_ORG \o <<".", "e", "v", "i", "l", ".", "t", "l", "d">>,
     WIKIPEDIA_ORG \o <<"@", "e", "v", "i", "l", ".", "t", "l", "d">>,
     <<"e", "v", "i", "l", ".", "t", "l", "d">>}

WIKI_PATH == <<"/", "w", "i", "k", "i", "/", "A", "c", "m", "e">>

\* Texts that are no URL with a host: no scheme, no host, a mail address.
UrlOddities ==
    {<<"e", "n", ".">> \o WIKIPEDIA_ORG \o WIKI_PATH,
     <<"h", "t", "t", "p", "s", ":", "/", "/">>,
     <<"m", "a", "i", "l", "t", "o", ":", "a", "@">> \o WIKIPEDIA_ORG,
     <<>>}

QueryUrlChoices ==
    {Null} \cup {Str(t) : t \in UrlOddities}
           \cup {Str(scheme \o host \o WIKI_PATH) : scheme \in UrlSchemes, host \in UrlHosts}

BodyUrlChoices ==
    {Null,
     Str(<<"h", "t", "t", "p", "s", ":", "/", "/", "e", "n", ".">> \o WIKIPEDIA_ORG \o WIKI_PATH),
     Str(<<"h", "t", "t", "p", "s", ":", "/", "/", "e", "v", "i", "l">> \o WIKIPEDIA_ORG)}

\* const url = req.query?.url || req.body?.url;
requestUrl == Or(queryUrl, bodyUrl)

\* The negation of the test (!url || !isWikipediaUrl(url)).
UrlAccepted == Truthy(requestUrl) /\ isWikipediaUrl(requestUrl.s)

UrlStart ==
    /\ queryUrl \in QueryUrlChoices
    /\ bodyUrl \in BodyUrlChoices
    /\ urlPc = "validate"
    /\ urlStatus = 0
    /\ urlResponses = 0
    /\ urlBrowser = "none"
    /\ urlLaunches = 0
    /\ navigated = Null

UrlInit == UrlStart /\ SelOff /\ ParseOff /\ HandlerOff /\ IndustryOff /\ TickerOff /\ SocialOff /\ HqOff /\ ConcOff

\* res.status(code).json(...), then finally { if (browser) close }.
UrlRespond(code, launched) ==
    /\ urlStatus' = code
    /\ urlResponses' = urlResponses + 1
    /\ urlBrowser' = AfterFinally(launched)

\* if (!url || !isWikipediaUrl(url)) { res.status(400)...; return; }
RejectUrl ==
    /\ urlPc = "validate"
    /\ ~UrlAccepted
    /\ UrlRespond(400, urlBrowser)
    /\ urlPc' = "rejected"
    /\ UNCHANGED <<queryUrl, bodyUrl, urlLaunches, navigated>>
    /\ UNCHANGED <<selVars, parseVars, handlerVars, industryVars, tickerVars, socialVars, hqVars, concVars>>

\* browser = await ...launch(...)
LaunchForUrl ==
    /\ urlPc = "validate"
    /\ UrlAccepted
    /\ urlBrowser' = "open"
    /\ urlLaunches' = urlLaunches + 1
    /\ urlPc' = "launched"
    /\ UNCHANGED <<queryUrl, bodyUrl, urlStatus, urlResponses, navigated>>
    /\ UNCHANGED <<selVars, parseVars, handlerVars, industryVars, tickerVars, socialVars, hqVars, concVars>>

\* launch() rejected: there is no browser, the catch answers 500.
LaunchForUrlThrows ==
    /\ urlPc = "validate"
    /\ UrlAccepted
    /\ UrlRespond(500, urlBrowser)
    /\ urlPc' = "failed"
    /\ UNCHANGED <<queryUrl, bodyUrl, urlLaunches, navigated>>
    /\ UNCHANGED <<selVars, parseVars, handlerVars, industryVars, tickerVars, socialVars, hqVars, concVars>>

\* newPage(), setUserAgent() or setExtraHTTPHeaders() rejected before goto.
PageThrows ==
    /\ urlPc = "launched"
    /\ UrlRespond(500, urlBrowser)
    /\ urlPc' = "failed"
    /\ UNCHANGED <<queryUrl, bodyUrl, urlLaunches, navigated>>
    /\ UNCHANGED <<selVars, parseVars, handlerVars, industryVars, tickerVars, socialVars, hqVars, concVars>>

\* await page.goto(url, ...): the browser requests the URL's host.
Goto ==
    /\ urlPc = "launched"
    /\ navigated' = ParseHostname(requestUrl.s)
    /\ urlPc' = "loaded"
    /\ UNCHANGED <<queryUrl, bodyUrl, urlStatus, urlResponses, urlBrowser, urlLaunches>>
    /\ UNCHANGED <<selVars, parseVars, handlerVars, industryVars, tickerVars, socialVars, hqVars, concVars>>

\* goto() or page.evaluate() rejected: the catch answers 500.
PageFails ==
    /\ urlPc = "loaded"
    /\ UrlRespond(500, urlBrowser)
    /\ urlPc' = "failed"
    /\ UNCHANGED <<queryUrl, bodyUrl, urlLaunches, navigated>>
    /\ UNCHANGED <<selVars, parseVars, handlerVars, industryVars, tickerVars, socialVars, hqVars, concVars>>

\* res.status(200).json(data)
AnswerPage ==
    /\ urlPc = "loaded"
    /\ UrlRespond(200, urlBrowser)
    /\ urlPc' = "done"
    /\ UNCHANGED <<queryUrl, bodyUrl, urlLaunches, navigated>>
    /\ UNCHANGED <<selVars, parseVars, handlerVars, industryVars, tickerVars, socialVars, hqVars, concVars>>

UrlNext ==
    \/ RejectUrl \/ LaunchForUrl \/ LaunchForUrlThrows
    \/ PageThrows \/ Goto \/ PageFails \/ AnswerPage

SpecUrl == UrlInit /\ [][UrlNext]_vars

-----------------------------------------------------------------------------
(* buildHeadquarters as a run: the fetches, the two hops, the fallback     *)

\* An absent id: getClaimId(...) gave null.
NoId == "none"

\* The headquarters place, two administrative entities, and one beyond them.
PLACE == "Q1"
PlaceIds == {PLACE, "Q2", "Q3", "Q4"}

HQ_EUROPE == <<"E", "u", "r", "o", "p", "e">>
PlaceNames == [id \in PlaceIds \ {PLACE} |->
                 CASE id = "Q2" -> HQ_RHONE [] id = "Q3" -> HQ_FRANCE [] OTHER -> HQ_EUROPE]

HQ_COORDINATES == [lat |-> 45, lon |-> 4]

\* The first P131 of each entity: self-loops, cycles and a chain of three.
LocatedInChoices ==
    {[id \in PlaceIds |-> CASE id = PLACE -> a [] id = "Q2" -> b [] id = "Q3" -> c
                            [] OTHER -> NoId] :
        a \in {NoId, PLACE, "Q2"}, b \in {NoId, PLACE, "Q2", "Q3"}, c \in {NoId, "Q2", "Q4"}}

\* The graph: located-in (P131) of every entity, the entities that are an
\* instance of city or human settlement, those without an English label,
\* those Wikidata does not return, and the place's P17, label and P625.
GraphChoices ==
    [p131 : LocatedInChoices,
     settlements : {{PLACE} \cup S : S \in SUBSET {"Q2", "Q3"}},
     unlabelled : {{}, {"Q2"}},
     absent : {{}, {"Q2"}},
     p17 : {NoId, "Q2", "Q3"},
     label : {Null, Str(HQ_LYON), Str(HQ_MOUNTAIN_VIEW)},
     coordinates : {Null, HQ_COORDINATES}]

\* e.labels?.en?.value
LabelOf(id) ==
    IF id = PLACE THEN wikidata.label
    ELSE IF id \in wikidata.unlabelled THEN Null
    ELSE Str(PlaceNames[id])

\* An entity as buildHeadquarters reads it: its label and looksLike(e, Q_CITY)
\* || looksLike(e, Q_HUMAN_SETTLEMENT).
EntityOf(id) == Place(LabelOf(id), id \in wikidata.settlements)

\* countryId = getClaimId(hq, "P17"), admin1Id = getClaimId(hq, "P131")
countryId == wikidata.p17
admin1Id == wikidata.p131[headquartersId]

\* Variant: every entity of the graph is asked for.
ToFetch_WholeGraph(admin1, country) == PlaceIds

\* toFetch = unique([admin1Id, countryId].filter(Boolean))
ToFetch(admin1, country) == {admin1, country} \ {NoId}

\* getClaimId(more[admin1Id], "P131") || null, when admin1Id && more[admin1Id]
Admin2IdOf(held) ==
    IF admin1Id # NoId /\ admin1Id \in held THEN wikidata.p131[admin1Id] ELSE NoId

\* What one call of getWikidataEntities adds to more: the entities asked for
\* that Wikidata returns, or nothing when the call gave null.
Answered(ids, answer) == IF answer = "entities" THEN ids \ wikidata.absent ELSE {}

\* admin1 = admin1Id ? (entities[admin1Id] || more[admin1Id]) : null, and
\* admin2 likewise.
HopEntity(id) ==
    IF id # NoId /\ id \in (entities \cup more) THEN EntityOf(id) ELSE Null

\* country = countryId ? (entities[countryId]?.labels?.en?.value
\*                        || more[countryId]?.labels?.en?.value || null) : null
CountryLabel ==
    IF countryId # NoId /\ countryId \in (entities \cup more) THEN LabelOf(countryId)
    ELSE Null

HqStart ==
    /\ wikidata = Null
    /\ entities = {}
    /\ headquartersId = NoId
    /\ more = {}
    /\ admin2Id = NoId
    /\ requested = {}
    /\ fetches = 0
    /\ resolved = Null
    /\ hqResult = Null
    /\ hqPc = "call"

HqInit == HqStart /\ SelOff /\ ParseOff /\ HandlerOff /\ IndustryOff /\ TickerOff /\ SocialOff /\ UrlOff /\ ConcOff

\* hqStruct = await buildHeadquarters(extended, headquartersId): the company
\* has a P159 or none, and the place entity was returned with the labels or not.
CallBuildHeadquarters ==
    /\ hqPc = "call"
    /\ wikidata' \in GraphChoices
    /\ \E id \in {NoId, PLACE}, held \in {{}, {PLACE}} :
          /\ id = NoId => held = {}
          /\ headquartersId' = id
          /\ entities' = held
    /\ hqPc' = "start"
    /\ UNCHANGED <<more, admin2Id, requested, fetches, resolved, hqResult>>
    /\ UNCHANGED <<selVars, parseVars, handlerVars, industryVars, tickerVars, socialVars, urlVars, concVars>>

\* The place entity was handed over.
PlaceFound == headquartersId # NoId /\ headquartersId \in entities

\* if (!headquartersId || !entities?.[headquartersId]) return null;
ReturnNull ==
    /\ hqPc = "start"
    /\ ~PlaceFound
    /\ hqResult' = Null
    /\ hqPc' = "returned"
    /\ UNCHANGED <<wikidata, entities, headquartersId, more, admin2Id, requested, fetches,
                   resolved>>
    /\ UNCHANGED <<selVars, parseVars, handlerVars, industryVars, tickerVars, socialVars, urlVars, concVars>>

\* if (toFetch.length) more = await getWikidataEntities(toFetch) || {};
FirstFetch ==
    /\ hqPc = "start"
    /\ PlaceFound
    /\ ToFetch(admin1Id, countryId) # {}
    /\ \E answer \in {"entities", "null"} :
          more' = Answered(ToFetch(admin1Id, countryId), answer)
    /\ requested' = requested \cup ToFetch(admin1Id, countryId)
    /\ fetches' = fetches + 1
    /\ hqPc' = "fetched"
    /\ UNCHANGED <<wikidata, entities, headquartersId, admin2Id, resolved, hqResult>>
    /\ UNCHANGED <<selVars, parseVars, handlerVars, industryVars, tickerVars, socialVars, urlVars, concVars>>

\* The place has neither P131 nor P17: nothing is fetched.
NoFirstFetch ==
    /\ hqPc = "start"
    /\ PlaceFound
    /\ ToFetch(admin1Id, countryId) = {}
    /\ hqPc' = "fetched"
    /\ UNCHANGED <<wikidata, entities, headquartersId, more, admin2Id, requested, fetches,
                   resolved, hqResult>>
    /\ UNCHANGED <<selVars, parseVars, handlerVars, industryVars, tickerVars, socialVars, urlVars, concVars>>

\* if (admin2Id && !more[admin2Id]) { more2 = await getWikidataEntities([admin2Id]) || {};
\*                                    more = { ...more, ...more2 }; }
SecondFetch ==
    /\ hqPc = "fetched"
    /\ Admin2IdOf(more) # NoId
    /\ Admin2IdOf(more) \notin more
    /\ admin2Id' = Admin2IdOf(more)
    /\ \E answer \in {"entities", "null"} :
          more' = more \cup Answered({Admin2IdOf(more)}, answer)
    /\ requested' = requested \cup {Admin2IdOf(more)}
    /\ fetches' = fetches + 1
    /\ hqPc' = "hops"
    /\ UNCHANGED <<wikidata, entities, headquartersId, resolved, hqResult>>
    /\ UNCHANGED <<selVars, parseVars, handlerVars, industryVars, tickerVars, socialVars, urlVars, concVars>>

\* The first hop has no P131, was not returned, or its P131 is already held.
NoSecondFetch ==
    /\ hqPc = "fetched"
    /\ Admin2IdOf(more) = NoId \/ Admin2IdOf(more) \in more
    /\ admin2Id' = Admin2IdOf(more)
    /\ hqPc' = "hops"
    /\ UNCHANGED <<wikidata, entities, headquartersId, more, requested, fetches, resolved,
                   hqResult>>
    /\ UNCHANGED <<selVars, parseVars, handlerVars, industryVars, tickerVars, socialVars, urlVars, concVars>>

\* fetch() rejected inside getWikidataEntities: buildHeadquarters rejects.
FetchThrows ==
    /\ PlaceFound
    /\ \/ /\ hqPc = "start"
          /\ ToFetch(admin1Id, countryId) # {}
          /\ requested' = requested \cup ToFetch(admin1Id, countryId)
       \/ /\ hqPc = "fetched"
          /\ Admin2IdOf(more) # NoId
          /\ Admin2IdOf(more) \notin more
          /\ requested' = requested \cup {Admin2IdOf(more)}
    /\ fetches' = fetches + 1
    /\ hqPc' = "raised"
    /\ UNCHANGED <<wikidata, entities, headquartersId, more, admin2Id, resolved, hqResult>>
    /\ UNCHANGED <<selVars, parseVars, handlerVars, industryVars, tickerVars, socialVars, urlVars, concVars>>

\* The two if blocks that classify admin1 and admin2, and the country label.
ClassifyHops ==
    /\ hqPc = "hops"
    /\ resolved' = Resolved(GraphCity(HopEntity(admin1Id), HopEntity(admin2Id)),
                            GraphRegion(HopEntity(admin1Id), HopEntity(admin2Id)),
                            CountryLabel)
    /\ hqPc' = "classified"
    /\ UNCHANGED <<wikidata, entities, headquartersId, more, admin2Id, requested, fetches,
                   hqResult>>
    /\ UNCHANGED <<selVars, parseVars, handlerVars, industryVars, tickerVars, socialVars, urlVars, concVars>>

\* The label fallback and the returned record.
ReturnHeadquarters ==
    /\ hqPc = "classified"
    /\ hqResult' = buildHeadquarters(LabelOf(headquartersId), HopEntity(admin1Id),
                                     HopEntity(admin2Id), CountryLabel,
                                     wikidata.coordinates)
    /\ hqPc' = "returned"
    /\ UNCHANGED <<wikidata, entities, headquartersId, more, admin2Id, requested, fetches,
                   resolved>>
    /\ UNCHANGED <<selVars, parseVars, handlerVars, industryVars, tickerVars, socialVars, urlVars, concVars>>

HqNext ==
    \/ CallBuildHeadquarters
    \/ ReturnNull \/ FirstFetch \/ NoFirstFetch \/ SecondFetch \/ NoSecondFetch
    \/ FetchThrows \/ ClassifyHops \/ ReturnHeadquarters

SpecHq == HqInit /\ [][HqNext]_vars


-----------------------------------------------------------------------------
(* Concurrent invocations of the domain-first handler in one process       *)

\* How many invocations of the handler are in flight together.
NumInvocations == 2
Invocations == 1..NumInvocations

DOMAIN_OTHER == <<"o", "t", "h", "e", "r", ".", "i", "o">>
LABEL_OTHER == <<"O", "t", "h", "e", "r", " ", "L", "t", "d">>

\* The Wikidata label of the company that owns a domain.
LabelOfDomain(domain) == IF domain = DOMAIN_ACME THEN LABEL_ACME ELSE LABEL_OTHER

\* A request and what its collaborators answer: Wikidata gives the entity's
\* label or nothing, the infobox gives a heading or nothing.
RequestChoices ==
    {[domain |-> d, baseName |-> IF labelled THEN Str(LabelOfDomain(d)) ELSE Null,
      wikiName |-> w] :
        d \in {DOMAIN_ACME, DOMAIN_OTHER},
        labelled \in BOOLEAN,
        w \in {Null, Str(HEADING_ACME)}}

\* The flags of RE_QID = /^Q\d+$/i: a regular expression keeps a lastIndex
\* between calls of test() only when it is global or sticky.
RE_QID_FLAGS == {"i"}

\* RE_QID.test(id) on an id that matches, and the lastIndex it leaves.
TestsTrue(flags, lastIndex) == flags \cap {"g", "y"} = {} \/ lastIndex = 0
AfterTest(flags, lastIndex) ==
    IF flags \cap {"g", "y"} = {} THEN lastIndex
    ELSE IF lastIndex = 0 THEN 1 ELSE 0

\* The values the module declares: localPuppeteer, assigned once when the
\* module is loaded, RE_QID's lastIndex and EXCHANGE_PREFERENCE.
ModuleValues ==
    [localPuppeteer |-> TRUE, lastIndex |-> 0, exchanges |-> EXCHANGE_PREFERENCE]

\* Variant: the bindings are module-level, one frame for every invocation.
FrameOf_ModuleLevel(i) == 1

\* const domain, let baseName, let wiki ... are declared inside handler():
\* every invocation has bindings of its own.
FrameOf(i) == i

NoBindings == [domain |-> Null, baseName |-> Null, wiki |-> Null]

\* name: wiki.name || baseName || domain
NameOf(wikiName, baseName, domain) == Or(Or(wikiName, baseName), domain)

ConcStart ==
    /\ requests \in [Invocations -> RequestChoices]
    /\ moduleValues = ModuleValues
    /\ frames = [i \in Invocations |-> NoBindings]
    /\ invPc = [i \in Invocations |-> "called"]
    /\ invResponses = [i \in Invocations |-> Null]

ConcInit == ConcStart /\ SelOff /\ ParseOff /\ HandlerOff /\ IndustryOff /\ TickerOff /\ SocialOff /\ UrlOff /\ HqOff

\* handler() runs to its first await: domain = normalizeDomainInput(...),
\* then await findWikidataByWebsite(websiteUrl).
Called(i) ==
    /\ invPc[i] = "called"
    /\ frames' = [frames EXCEPT ![FrameOf(i)].domain = Str(requests[i].domain)]
    /\ invPc' = [invPc EXCEPT ![i] = "lookup"]
    /\ UNCHANGED <<requests, moduleValues, invResponses>>
    /\ UNCHANGED <<selVars, parseVars, handlerVars, industryVars, tickerVars, socialVars, urlVars, hqVars>>

\* The lookup settled: getWikidataEntities filtered the ids with RE_QID.test,
\* baseName = entity.labels.en.value; then the awaits up to the scrape.
LookedUp(i) ==
    /\ invPc[i] = "lookup"
    /\ frames' = [frames EXCEPT ![FrameOf(i)].baseName =
                     IF TestsTrue(RE_QID_FLAGS, moduleValues.lastIndex)
                     THEN requests[i].baseName ELSE Null]
    /\ moduleValues' = [moduleValues EXCEPT
                          !.lastIndex = AfterTest(RE_QID_FLAGS, moduleValues.lastIndex)]
    /\ invPc' = [invPc EXCEPT ![i] = "scrape"]
    /\ UNCHANGED <<requests, invResponses>>
    /\ UNCHANGED <<selVars, parseVars, handlerVars, industryVars, tickerVars, socialVars, urlVars, hqVars>>

\* wiki = await scrapeWikipediaInfobox(browser, wikipediaUrl); then the awaits
\* of the quote, the registry and the homepage.
Scraped(i) ==
    /\ invPc[i] = "scrape"
    /\ frames' = [frames EXCEPT ![FrameOf(i)].wiki = requests[i].wikiName]
    /\ invPc' = [invPc EXCEPT ![i] = "merge"]
    /\ UNCHANGED <<requests, moduleValues, invResponses>>
    /\ UNCHANGED <<selVars, parseVars, handlerVars, industryVars, tickerVars, socialVars, urlVars, hqVars>>

\* The last await settled: merged = { name: wiki.name || baseName || domain,
\* ... }; res.status(200).json(merged).
Answered200(i) ==
    /\ invPc[i] = "merge"
    /\ invResponses' = [invResponses EXCEPT ![i] =
                          NameOf(frames[FrameOf(i)].wiki, frames[FrameOf(i)].baseName,
                                 frames[FrameOf(i)].domain)]
    /\ invPc' = [invPc EXCEPT ![i] = "done"]
    /\ UNCHANGED <<requests, moduleValues, frames>>
    /\ UNCHANGED <<selVars, parseVars, handlerVars, industryVars, tickerVars, socialVars, urlVars, hqVars>>

ConcNext ==
    \E i \in Invocations : Called(i) \/ LookedUp(i) \/ Scraped(i) \/ Answered200(i)

SpecConc == ConcInit /\ [][ConcNext]_vars

-----------------------------------------------------------------------------
(* Properties of the selector (SpecSelector)                               *)

\* The positions of the digit characters of a string, in order.
DigitPositions(s) == {i \in 1..Len(s) : IsDigit(s[i])}

\* The ordering key as the specification words it: the first eight digit
\* characters of the qualifier's time string read as one number YYYYMMDD
\* (fewer digits when the string has fewer), and 0 without a qualifier.
LeadingKey(st) ==
    IF st.time.k # "str" \/ st.time.s = <<>> THEN 0
    ELSE LET t == st.time.s
             lead == {i \in DigitPositions(t) :
                        Cardinality({j \in DigitPositions(t) : j < i}) < 8}
             rank(i) == Cardinality({j \in lead : j > i})
             Pow10[n \in 0..8] == IF n = 0 THEN 1 ELSE 10 * Pow10[n - 1]
             Sum[S \in SUBSET lead] ==
                 IF S = {} THEN 0
                 ELSE LET i == CHOOSE x \in S : TRUE
                      IN DigitVal(t[i]) * Pow10[rank(i)] + Sum[S \ {i}]
         IN Sum[lead]

SelItems == IF stmts.k = "list" THEN stmts.items ELSE <<>>

\* C4: latestByP585 returns null for a missing or empty list, and otherwise a
\* statement of the list whose key is the maximum key, the earliest such in
\* input order.
C4_LatestIsFirstMaximum ==
    selPc = "done" =>
        IF SelItems = <<>> THEN picked = Null
        ELSE /\ picked.k = "stmt"
             /\ \E i \in 1..Len(SelItems) :
                   /\ SelItems[i] = picked.st
                   /\ \A j \in 1..Len(SelItems) :
                         LeadingKey(SelItems[j]) <= LeadingKey(SelItems[i])
                   /\ \A j \in 1..(i - 1) :
                         LeadingKey(SelItems[j]) < LeadingKey(SelItems[i])

\* C4 witness: the maximum key is shared by two statements that follow a
\* statement of lower key, and the selector has answered.
C4_Witness ==
    /\ selPc = "done"
    /\ Len(SelItems) = 3
    /\ LeadingKey(SelItems[1]) < LeadingKey(SelItems[2])
    /\ LeadingKey(SelItems[2]) = LeadingKey(SelItems[3])
    /\ picked.k = "stmt"
    /\ picked.st = SelItems[2]

\* The reorderings of a list.
Reorderings(xs) ==
    LET n == Len(xs)
        P == {f \in [1..n -> 1..n] : \A a, b \in 1..n : f[a] = f[b] => a = b}
    IN {[i \in 1..n |-> xs[f[i]]] : f \in P}

SameChoiceUnderReordering ==
    \A ys \in Reorderings(SelItems) : latestByP585(List(ys)) = picked

AllTimed == \A i \in 1..Len(SelItems) : Truthy(SelItems[i].time)

DistinctTimestamps ==
    \A i, j \in 1..Len(SelItems) :
        i # j => SelItems[i].time # SelItems[j].time

DistinctKeys ==
    \A i, j \in 1..Len(SelItems) :
        i # j => LeadingKey(SelItems[i]) # LeadingKey(SelItems[j])

\* C5 as stated: when every statement carries a timestamp and the timestamps
\* are pairwise distinct, every reordering of the list selects the same
\* statement.
C5_DistinctTimestampsOrderFree ==
    (selPc = "done" /\ SelItems # <<>> /\ AllTimed /\ DistinctTimestamps)
        => SameChoiceUnderReordering

\* C5 amended: when the keys (the leading eight digits of the timestamp, 0
\* without a qualifier) are pairwise distinct, every reordering of the list
\* selects the same statement.
C5_DistinctKeysOrderFree ==
    (selPc = "done" /\ SelItems # <<>> /\ DistinctKeys)
        => SameChoiceUnderReordering

\* C5 witness: three statements of pairwise distinct keys, one of them without
\* a qualifier and two of the same year, have been reduced to one.
C5_Witness ==
    /\ selPc = "done"
    /\ Len(SelItems) = 3
    /\ DistinctKeys
    /\ \E i \in 1..3 : ~Truthy(SelItems[i].time)
    /\ \E i, j \in 1..3 :
          /\ i # j
          /\ LeadingKey(SelItems[i]) \div 10000 = LeadingKey(SelItems[j]) \div 10000
          /\ LeadingKey(SelItems[i]) > 0
    /\ picked.k = "stmt"

-----------------------------------------------------------------------------
(* Properties of the parser (SpecParser)                                   *)

RawText == IF rawIn.k = "str" THEN rawIn.s ELSE <<>>

\* The lengths of the maximal runs of digits of a string.
DigitRunLengths(c) ==
    {RunEnd(c, i, Digits) - i + 1 :
        i \in {j \in 1..Len(c) : IsDigit(c[j]) /\ (j = 1 \/ ~IsDigit(c[j - 1]))}}

\* The string without its commas, periods and whitespace.
Unseparated(c) == SelectSeq(c, LAMBDA ch : ch \notin ({",", "."} \cup Whitespace))

CountIsNull == parsed = Null \/ parsed.count = Null

\* C7 as stated: when every number of the raw string has fewer than three
\* digits the count is null, and the whole result is null when no date
\* candidate was found either.
C7_ShortNumbersGiveNoCount ==
    (parsePc = "done" /\ Truthy(rawIn) /\ \A n \in DigitRunLengths(RawText) : n < 3)
        => (CountIsNull /\ (found = Null => parsed = Null))

\* C7 amended: the runs of digits are those of the string with commas, periods
\* and whitespace removed; when each of them has fewer than three digits the
\* count is null and the whole result is null.
C7_ShortRunsAfterStrippingGiveNull ==
    (parsePc = "done" /\ Truthy(rawIn)
        /\ \A n \in DigitRunLengths(Unseparated(RawText)) : n < 3)
        => parsed = Null

\* C7 witness: a text with a word and a two-digit number ("founded 30") has
\* been parsed to null.
C7_Witness ==
    /\ parsePc = "done"
    /\ RawText = W_WORD \o <<" ">> \o W_SMALL
    /\ parsed = Null

\* The raw string holds exactly one number, a run of four digits.
OnlyNumberIsYear == DigitRunLengths(RawText) = {4} /\
    Cardinality({j \in 1..Len(RawText) :
        IsDigit(RawText[j]) /\ (j = 1 \/ ~IsDigit(RawText[j - 1]))}) = 1

TheYear ==
    LET i == CHOOSE j \in 1..Len(RawText) : IsDigit(RawText[j]) /\ (j = 1 \/ ~IsDigit(RawText[j - 1]))
    IN SubSeq(RawText, i, i + 3)

\* C8: a raw string whose only number is a bare four-digit year parses to
\* {count: null, as_of: "<year>-01-01"}.
C8_BareYearIsDateNotCount ==
    (parsePc = "done" /\ Truthy(rawIn) /\ OnlyNumberIsYear)
        => parsed = Employees(Null, Str(TheYear \o <<"-", "0", "1", "-", "0", "1">>))

TEXT_182502_JUNE_2024 == SIZE_COUNT_MONTH_YEAR

\* C9: "182,502 (June 2024)" parses to {count: 182502, as_of: "2024-06-01"} on
\* every host, whatever its time zone.
C9_CountAndMonthYear ==
    (parsePc = "done" /\ RawText = TEXT_182502_JUNE_2024)
        => parsed = Employees(Num(182502),
                              Str(<<"2", "0", "2", "4", "-", "0", "6", "-", "0", "1">>))

\* The parenthetical of a string as the specification words it: the text
\* between the first "(" that has text after it up to a ")" and that ")".
Parenthetical(c) ==
    LET opens == {i \in 1..Len(c) : c[i] = "(" /\ i + 1 <= Len(c) /\ c[i + 1] # ")"
                                      /\ \E j \in (i + 2)..Len(c) : c[j] = ")"}
    IN IF opens = {} THEN <<>>
       ELSE LET i == Min(opens)
                j == Min({x \in (i + 2)..Len(c) : c[x] = ")"})
            IN [n \in 1..(j - i - 1) |-> c[i + n]]

SearchRegion(c) == IF Parenthetical(c) # <<>> THEN Parenthetical(c) ELSE c

\* C10: the date candidate is the match of the first of ISO, day-month-year,
\* month-day-year, month-year and bare year that occurs in the parenthetical
\* when the string has one and in the whole string otherwise; a bare year
\* candidate yields "YYYY-01-01".
C10_DatePriority ==
    (parsePc = "done" /\ Truthy(rawIn)) =>
        LET region == SearchRegion(RawText)
            iso == FirstMatch(region, IsoEnd)
            dmy == FirstMatch(region, DmyEnd)
            mdy == FirstMatch(region, MdyEnd)
            ym  == FirstMatch(region, YmEnd)
            yr  == FirstMatch(region, YrEnd)
        IN  IF iso # Null THEN found = iso
            ELSE IF dmy # Null THEN found = dmy
            ELSE IF mdy # Null THEN found = mdy
            ELSE IF ym # Null THEN found = ym
            ELSE IF yr # Null
                THEN /\ found = yr
                     /\ parsed # Null
                     /\ parsed.as_of = Str(yr.s \o <<"-", "0", "1", "-", "0", "1">>)
            ELSE found = Null /\ (parsed = Null \/ parsed.as_of = Null)

\* C10 witness: "2024-06-30 (June 2024)" has been parsed: the ISO date outside
\* the parenthetical is not looked at, and inside it the month-year form wins
\* over the bare year.
C10_Witness ==
    /\ parsePc = "done"
    /\ RawText = W_ISO \o <<" ", "(">> \o W_MONTH \o <<" ">> \o W_YEAR \o <<")">>
    /\ found = Str(W_MONTH \o <<" ">> \o W_YEAR)

\* The stripped text has a run of three or more digits.
CountExtractable == \E n \in DigitRunLengths(Unseparated(RawText)) : n >= 3

\* The date candidate is a bare year or a string new Date() accepts.
DateExtractable ==
    /\ found # Null
    /\ \/ (Len(found.s) = 4 /\ AllDigits(found.s))
       \/ UtcDateOf(found.s, hostTZ).k = "date"

\* C11: parseEmployeesString never raises for null, empty or any other text;
\* it returns null exactly when neither a count nor a date could be extracted,
\* and a date candidate that is not a valid date leaves as_of null.
C11_NeverRaisesNullOnlyWhenNothing ==
    /\ parsePc # "threw"
    /\ parsePc = "done" =>
          /\ parsed = Null <=> (~Truthy(rawIn) \/ (~CountExtractable /\ ~DateExtractable))
          /\ (found # Null /\ ~DateExtractable) => (parsed = Null \/ parsed.as_of = Null)

\* C11 witness: "30 founded 2024" has been parsed: its candidate
\* "30 founded 2024" is not a date, and the result keeps the count with a null
\* as_of.
C11_Witness ==
    /\ parsePc = "done"
    /\ RawText = W_SMALL \o <<" ">> \o W_WORD \o <<" ">> \o W_YEAR
    /\ found = rawIn
    /\ parsed = Employees(Num(2024), Null)

-----------------------------------------------------------------------------
(* Properties of the handlers (Spec)                                       *)

\* What each source supplied, field by field (Null when it supplied nothing).
StructuredWebsite == IF entity = Null THEN Null ELSE entity.website
StructuredType == enriched.type
StructuredHeadquarters == IF entity = Null THEN Null ELSE StructuredHq(entity.hq)
StructuredEmployees == IF entity = Null THEN Null ELSE ExtractEmployees(entity.p1128)
FreeTextField(f) == IF infobox = Null THEN Null ELSE infobox[f]
FreeTextEmployees == wikiEmployeesParsed

\* The structured value when there is one, else the free-text value when there
\* is one.
Precedence(structured, freeText, emitted) ==
    /\ Truthy(structured) => emitted = structured
    /\ (~Truthy(structured) /\ Truthy(freeText)) => emitted = freeText

WebsiteByPrecedence ==
    Precedence(StructuredWebsite, FreeTextField("website"), merged.website)
TypeByPrecedence ==
    Precedence(StructuredType, FreeTextField("type"), merged.type)
HeadquartersByPrecedence ==
    Precedence(StructuredHeadquarters, FreeTextField("headquarters"),
               IF merged.headquarters # Null /\ ~Truthy(StructuredHeadquarters)
               THEN merged.headquarters.raw ELSE merged.headquarters)
EmployeesByPrecedence ==
    Precedence(StructuredEmployees, FreeTextEmployees, merged.employees)

\* C1: in both handlers the emitted website, type, headquarters and employees
\* are the structured value when the structured source supplied one and the
\* free-text value otherwise.
C1_StructuredElseFreeText ==
    hPc = "done" =>
        /\ WebsiteByPrecedence
        /\ TypeByPrecedence
        /\ HeadquartersByPrecedence
        /\ EmployeesByPrecedence

FreeTextName == FreeTextField("name")

\* C3 as stated: the emitted name is the free-text display name when there is
\* one, and the query or the domain otherwise.
C3_NameOrRequest ==
    hPc = "done" =>
        merged.name = (IF Truthy(FreeTextName) THEN FreeTextName ELSE Str(Request(handler)))

\* C3 amended: in the domain-first handler the English label of the Wikidata
\* entity comes between the free-text display name and the domain.
C3_NameLabelOrRequest ==
    hPc = "done" =>
        merged.name =
            (IF Truthy(FreeTextName) THEN FreeTextName
             ELSE IF handler = "domain" /\ entity # Null /\ Truthy(entity.label)
                  THEN entity.label
             ELSE Str(Request(handler)))

\* C3 witness: the domain-first handler scraped an infobox without a display
\* name for an entity with a label, and emitted the label.
C3_Witness ==
    /\ hPc = "done"
    /\ handler = "domain"
    /\ infobox # Null
    /\ ~Truthy(infobox.name)
    /\ merged.name = Str(LABEL_ACME)

NotEmptySnapshot(e) == e = Null \/ (e.k = "emp" /\ (e.count # Null \/ e.as_of # Null))

\* C6: an employees value that is not null has a count or an as_of, whether it
\* comes from extractFromWikidata, from parseEmployeesString or from the merge.
C6_NoEmptySnapshot ==
    /\ handler # "off" => NotEmptySnapshot(enriched.employees)
    /\ NotEmptySnapshot(wikiEmployeesParsed)
    /\ hPc = "done" => NotEmptySnapshot(merged.employees)

\* The same for every input of the selector run and of the parser run.
SelectorNeverEmptySnapshot == NotEmptySnapshot(wdEmp)
ParserNeverEmptySnapshot == NotEmptySnapshot(parsed)

\* C6 witness: the entity's only employees statement has neither an amount nor
\* a date, the infobox text has no number of three digits, and the merged
\* record has no employees.
C6_Witness ==
    /\ hPc = "done"
    /\ entity # Null
    /\ entity.p1128 = List(<<StatementById("s5")>>)
    /\ infobox # Null
    /\ infobox.company_size = Str(SIZE_SMALL)
    /\ merged.employees = Null

-----------------------------------------------------------------------------
(* Properties of the industry union (SpecIndustry)                         *)

\* The trimmed, non-empty texts of a list.
TrimmedTexts(v) ==
    LET xs == ItemsOf(v)
    IN SelectSeq([i \in 1..Len(xs) |-> Trim(xs[i].s)], LAMBDA t : t # <<>>)

Range(xs) == {xs[i] : i \in 1..Len(xs)}

\* C2: the merged industry list holds exactly the trimmed non-empty strings of
\* both lists, each once, the free-text items first in their order and then
\* the structured items not yet present in their order.
C2_IndustryUnion ==
    indPc = "done" =>
        LET both == TrimmedTexts(ftIndustry) \o TrimmedTexts(wdIndustry)
            out == [i \in 1..Len(industryOut.items) |-> industryOut.items[i].s]
            First(x) == Min({i \in 1..Len(both) : both[i] = x})
        IN /\ Range(out) = Range(both)
           /\ \A i, j \in 1..Len(out) : i < j => out[i] # out[j]
           /\ \A i, j \in 1..Len(out) : i < j => First(out[i]) < First(out[j])

\* C2 witness: free-text ["Tech"] and structured [" Tech ", "AI"] have merged
\* to ["Tech", "AI"].
C2_Witness ==
    /\ indPc = "done"
    /\ ftIndustry = List(<<Str(IND_TECH)>>)
    /\ wdIndustry = List(<<Str(IND_TECH_PADDED), Str(IND_AI)>>)
    /\ industryOut = List(<<Str(IND_TECH), Str(IND_AI)>>)

-----------------------------------------------------------------------------
(* Properties of the ticker run (SpecTicker)                               *)

ToLowerCase(s) == [i \in 1..Len(s) |-> ToLower(s[i])]

\* The exchange label of a candidate contains a name, letter case aside.
ContainsIgnoringCase(t, name) ==
    t.exchange # Null /\ Includes(ToLowerCase(t.exchange.s), ToLowerCase(name))

Candidates == IF tickers = Null THEN <<>> ELSE tickers.items

\* The ranks of the preference list that some candidate matches.
MatchedRanks ==
    {r \in 1..Len(exchangePreference) :
        \E i \in 1..Len(Candidates) : ContainsIgnoringCase(Candidates[i], exchangePreference[r])}

Chosen == tickPc \in {"quote", "done", "failed"}

\* C12: when some candidate's exchange label contains a ranked name, the
\* result is the symbol of the earliest candidate matching the highest-ranked
\* matched name, under either preference list.
C12_RankBeforeInputOrder ==
    (Chosen /\ MatchedRanks # {}) =>
        LET best == exchangePreference[Min(MatchedRanks)]
            first == Min({i \in 1..Len(Candidates) : ContainsIgnoringCase(Candidates[i], best)})
        IN primaryTicker = Candidates[first].symbol

\* C12 witness: with candidates on LSE, Nasdaq and Nasdaq in that order the
\* second one was chosen.
C12_Witness ==
    /\ Chosen
    /\ Len(Candidates) = 3
    /\ Candidates[1].exchange = Str(EX_LSE)
    /\ Candidates[2].exchange = Str(EX_NASDAQ)
    /\ Candidates[3].exchange = Str(EX_NASDAQ)
    /\ primaryTicker = SymbolAt(2)

\* C13: the result is null exactly when there is no candidate; with candidates
\* none of which matches a ranked exchange it is the first candidate's symbol;
\* it is always the symbol of one of the candidates.
C13_NullOnlyWhenEmptyElseFirst ==
    Chosen =>
        /\ primaryTicker = Null <=> Len(Candidates) = 0
        /\ (Len(Candidates) > 0 /\ MatchedRanks = {}) => primaryTicker = Candidates[1].symbol
        /\ Len(Candidates) > 0 => \E i \in 1..Len(Candidates) : primaryTicker = Candidates[i].symbol

\* C13 witness: two candidates, one without an exchange label and one on an
\* unranked exchange, and the first was chosen.
C13_Witness ==
    /\ Chosen
    /\ Len(Candidates) = 2
    /\ Candidates[1].exchange = Null
    /\ Candidates[2].exchange = Str(EX_EURONEXT)
    /\ primaryTicker = SymbolAt(1)

-----------------------------------------------------------------------------
(* Properties of the socials run (SpecSocial)                              *)

\* The host is the domain itself or ends with "." followed by the domain.
IsDomainOrSubdomain(host, d) ==
    \/ host = d
    \/ /\ Len(host) > Len(d)
       /\ SubSeq(host, Len(host) - Len(d) + 1, Len(host)) = d
       /\ host[Len(host) - Len(d)] = "."

\* The configuration entries whose domains cover the URL's host (none when
\* the URL does not parse).
CoveringEntries(url) ==
    LET host == ParseHostname(url)
    IN IF host = Null THEN {}
       ELSE {i \in 1..Len(SOCIAL_DOMAINS) :
               \E j \in 1..Len(SOCIAL_DOMAINS[i].domains) :
                   IsDomainOrSubdomain(host.s, SOCIAL_DOMAINS[i].domains[j])}

ExpectedPlatform(url) ==
    IF CoveringEntries(url) = {} THEN Null
    ELSE Platform(SOCIAL_DOMAINS[Min(CoveringEntries(url))].key)

\* C14: classifySocial returns the first configured key one of whose domains
\* the URL's lower-cased hostname equals or is a sub-domain of, and null for
\* every other URL (unparseable, or only containing a configured domain).
C14_SuffixMatchOnly ==
    socPc = "done" =>
        \A i \in 1..Len(links) : linkKeys[i] = ExpectedPlatform(links[i].s)

\* C14 witness: https://www.X.com/Acme was classified as x and
\* https://NotX.com/Acme as null.
C14_Witness ==
    /\ socPc = "done"
    /\ links = <<Str(HREF_WWW_X), Str(HREF_NOTX)>>
    /\ linkKeys = <<Platform("x"), Null>>

\* The absolute http(s) links of the page, in page order.
AbsoluteLinks == SelectSeq([i \in 1..Len(hrefs) |-> hrefs[i].href], IsAbsoluteHttp)

PlatformKeys == {SOCIAL_DOMAINS[i].key : i \in 1..Len(SOCIAL_DOMAINS)}

LinksOfPlatform(key) ==
    {i \in 1..Len(AbsoluteLinks) : classifySocial(AbsoluteLinks[i]) = Platform(key)}

StoredUrls(key) ==
    IF social = Null THEN {}
    ELSE {social.m[n].url : n \in {x \in 1..Len(social.m) : social.m[x].key = key}}

\* C15: for every platform the stored URL is the first absolute http(s) link
\* of the page (without surrounding blanks) that classifies to it, nothing is
\* stored for a platform no link classifies to or under any other key, and the
\* result is null when no link classifies.
C15_FirstLinkPerPlatform ==
    socPc = "done" =>
        /\ \A key \in PlatformKeys :
              IF LinksOfPlatform(key) = {} THEN StoredUrls(key) = {}
              ELSE StoredUrls(key) = {Str(Trim(AbsoluteLinks[Min(LinksOfPlatform(key))]))}
        /\ social # Null => \A n \in 1..Len(social.m) : social.m[n].key \in PlatformKeys
        /\ social = Null <=> \A key \in PlatformKeys : LinksOfPlatform(key) = {}

\* C15 witness: the page links to twitter.com and then to x.com, and only the
\* twitter.com link is stored, under x.
C15_Witness ==
    /\ socPc = "done"
    /\ Len(hrefs) = 2
    /\ hrefs[1].href = HREF_TWITTER
    /\ hrefs[2].href = HREF_X
    /\ social = SocialMap(<<[key |-> "x", url |-> Str(HREF_TWITTER)]>>)


\* C20: whenever the response carries financials, source.finance names the
\* provider whose call returned the quote, and source.finance is null exactly
\* when financials is null.
C20_FinanceSourceIsTheProvider ==
    tickPc = "done" =>
        /\ financials # Null => financeSource = quotedBy
        /\ financeSource = Null <=> financials = Null


\* The display label the emitted headquarters was built from: the label of
\* the headquarters entity, or the infobox text when there is no such entity.
DisplayLabel == IF Truthy(wdLocals.hqStruct) THEN entity.hq.label ELSE wiki.headquarters

\* C16: every emitted headquarters record has raw and place both equal to the
\* full display label, whether it was built from the headquarters entity or
\* from the infobox text.
C16_RawAndPlaceAreTheLabel ==
    hPc = "done" /\ merged.headquarters # Null =>
        /\ merged.headquarters.raw = DisplayLabel
        /\ merged.headquarters.place = DisplayLabel

\* The headquarters has no P131 chain and no P17 country, or there is no
\* headquarters entity at all.
NoGraphData ==
    \/ ~Truthy(wdLocals.hqStruct)
    \/ /\ entity.hq.admin1 = Null
       /\ entity.hq.admin2 = Null
       /\ entity.hq.countryLabel = Null

\* C17: without graph data a label of three comma-separated segments gives
\* city = first segment, region = middle segment, country = last segment,
\* in buildHeadquarters' label fallback and in the free-text fallback alike.
C17_ThreeSegmentLabel ==
    hPc = "done" /\ merged.headquarters # Null /\ NoGraphData
                 /\ Len(LabelParts(DisplayLabel)) = 3 =>
        /\ merged.headquarters.city = Str(LabelParts(DisplayLabel)[1])
        /\ merged.headquarters.region = Str(LabelParts(DisplayLabel)[2])
        /\ merged.headquarters.country = Str(LabelParts(DisplayLabel)[3])


\* Neither a Wikipedia page nor a Wikidata entity was resolved for the request.
NothingResolved == ~wdLocals.wikipediaUrl /\ entity = Null

\* C18: in both handlers a request for which neither a Wikipedia page nor a
\* Wikidata entity was resolved ends with a not-found response, never with a
\* record and status 200.
C18_NotFoundWhenNothingResolved ==
    hPc \in {"done", "notfound"} /\ NothingResolved =>
        /\ status = 404
        /\ merged = Null

\* C19: when the call to one optional collaborator fails, the request still
\* ends with status 200 and a record.
C19_CollaboratorFailureStays200 ==
    hPc \in {"done", "notfound", "failed"} /\ failure # "none" =>
        /\ status = 200
        /\ merged # Null


\* The record the same handler emits from the same answers on a host whose
\* local time is tz hours ahead of UTC.
RecordOnHost(tz) ==
    [merged EXCEPT !.employees =
        MergedEmployees(enriched.employees, parseEmployeesString(wiki.company_size, tz))]

\* C21: the merged record is a function of the request and the collaborators'
\* answers only: the same answers give the same record whatever the host's
\* environment.
C21_RecordDependsOnAnswersOnly ==
    hPc = "done" => \A tz \in TZOffsets : RecordOnHost(tz) = merged


\* The handler has returned (or its promise has rejected).
Finished == hPc \in {"done", "notfound", "rejected", "failed", "crashed"}

\* C28: on every path a launched browser is closed when the handler finishes,
\* a handler launches at most one browser, and the domain-first handler
\* launches none without an English Wikipedia sitelink.
C28_BrowserClosedAtMostOne ==
    /\ launches <= 1
    /\ launches = 0 <=> browser = "none"
    /\ Finished => browser # "open"
    /\ handler = "domain" /\ hPc # "failed" /\ ~wdLocals.wikipediaUrl => launches = 0

\* C28 witness: an exception was raised after the browser had been launched,
\* and the browser is closed.
C28_Witness ==
    /\ hPc = "failed"
    /\ failure \in {"quote", "registry"}
    /\ launches = 1
    /\ browser = "closed"

\* The status each way of finishing answers with.
StatusOf(pc) ==
    CASE pc = "rejected" -> 400
      [] pc = "notfound" -> 404
      [] pc = "done" -> 200
      [] OTHER -> 500

\* C29: every invocation sends exactly one response: 400 for a missing or
\* invalid input, 404 without a Wikipedia page, 200 with the record, 500 on
\* an exception; a missing or invalid input is never taken further.
C29_ExactlyOneResponse ==
    /\ responses <= 1
    /\ Finished => responses = 1 /\ status = StatusOf(hPc)
    /\ hPc \notin {"validate", "rejected"} => input = Str(Request(handler))


\* s reads YYYY-MM-DD with a month in 1..12 and a day in 1..31.
IsCalendarDate(s) ==
    /\ Len(s) = 10
    /\ s[5] = "-" /\ s[8] = "-"
    /\ \A i \in {1, 2, 3, 4, 6, 7, 9, 10} : IsDigit(s[i])
    /\ DecimalValue(SubSeq(s, 6, 7)) \in 1..12
    /\ DecimalValue(SubSeq(s, 9, 10)) \in 1..31

\* C27: every non-null employees.as_of emitted, from the employee statement's
\* point-in-time qualifier or from the infobox text, is a calendar date
\* YYYY-MM-DD with month in 1..12 and day in 1..31.
C27_AsOfIsCalendarDate ==
    hPc = "done" /\ merged.employees # Null /\ merged.employees.as_of # Null =>
        IsCalendarDate(merged.employees.as_of.s)


\* A host is wikipedia.org or wikipedia.com or a sub-domain of one of them.
IsWikipediaHost(host) ==
    /\ host # Null
    /\ \/ IsDomainOrSubdomain(host.s, WIKIPEDIA_ORG)
       \/ IsDomainOrSubdomain(host.s, WIKIPEDIA_COM)

\* C30: the URL-scrape handler sends the browser only to wikipedia.org,
\* wikipedia.com or a sub-domain of one of them; for a URL with any other
\* host it answers 400 and launches no browser.
C30_OnlyWikipediaHosts ==
    /\ navigated # Null => IsWikipediaHost(navigated)
    /\ urlLaunches > 0 => IsWikipediaHost(ParseHostname(requestUrl.s))
    /\ urlPc \in {"launched", "loaded", "done"} =>
           UrlProtocol(requestUrl.s).s \in {HTTP_PROTOCOL, HTTPS_PROTOCOL}


\* C23: a hop that is the entity used as country is never reported as region
\* (every entity of the graph has a label of its own, so a region that reads
\* as the label of a hop is that hop).
C23_RegionIsNotTheCountry ==
    resolved # Null =>
        \A hop \in {admin1Id, admin2Id} \ {NoId} :
            hop = countryId /\ Truthy(resolved.region) => resolved.region # LabelOf(hop)

\* C24: the graph-resolved city is the first hop's label when the first hop
\* is a city or a human settlement, else the second hop's label when the
\* second hop is one, else unresolved; the second hop gives neither city nor
\* region when the first hop classified as a city.
C24_CityFromFirstElseSecondHop ==
    resolved # Null =>
        LET first == HopEntity(admin1Id)
            second == HopEntity(admin2Id)
            firstIsCity == first # Null /\ first.settlement
            secondIsCity == second # Null /\ second.settlement
        IN /\ firstIsCity => resolved.city = first.label /\ resolved.region = Null
           /\ ~firstIsCity /\ secondIsCity => resolved.city = second.label
           /\ ~firstIsCity /\ ~secondIsCity => resolved.city = Null

\* C25: the label fallback runs only when city or country is unresolved and
\* fills only unresolved fields: what the graph resolved is returned as it
\* was, and raw, place and coordinates are the place's label and P625.
C25_FallbackFillsGapsOnly ==
    hqPc = "returned" /\ hqResult # Null =>
        /\ \A field \in {"city", "region", "country"} :
              Truthy(resolved[field]) => hqResult[field] = resolved[field]
        /\ Truthy(resolved.city) /\ Truthy(resolved.country) =>
              hqResult.region = resolved.region
        /\ hqResult.raw = LabelOf(headquartersId)
        /\ hqResult.place = LabelOf(headquartersId)
        /\ hqResult.coordinates = wikidata.coordinates

\* C25 witness: the graph gave a region and a country but no city, the label
\* has three segments, and the record has the label's city and the graph's
\* region.
C25_Witness ==
    /\ hqPc = "returned" /\ hqResult # Null
    /\ ~Truthy(resolved.city) /\ Truthy(resolved.region) /\ Truthy(resolved.country)
    /\ Len(LabelParts(LabelOf(headquartersId))) = 3
    /\ hqResult.city = Str(LabelParts(LabelOf(headquartersId))[1])
    /\ hqResult.region = resolved.region
    /\ hqResult.coordinates = HQ_COORDINATES

\* The entities at most two located-in hops away from the place.
WithinTwoHops ==
    LET hop1 == wikidata.p131[PLACE]
        hop2 == IF hop1 = NoId THEN NoId ELSE wikidata.p131[hop1]
    IN {hop1, hop2} \ {NoId}

\* How far buildHeadquarters has got: each step takes it further, and it has
\* returned or rejected at the last position.
HqPosition(pc) ==
    CASE pc = "call" -> 0
      [] pc = "start" -> 1
      [] pc = "fetched" -> 2
      [] pc = "hops" -> 3
      [] pc = "classified" -> 4
      [] OTHER -> 5

\* C26: buildHeadquarters ends for every located-in graph (every step takes
\* it further along a path of five positions; before the hops are classified
\* there is always a step to take, and the step after that, the fallback and
\* the return, has no condition), asks for no entity
\* more than two located-in hops away from the place (its country aside),
\* calls getWikidataEntities at most twice, and returns null without a call
\* when the place entity is absent.
C26_TerminatesWithinTwoHops ==
    /\ [](hqPc \notin {"off", "call"} =>
            /\ fetches <= 2
            /\ requested \subseteq (WithinTwoHops \cup {countryId})
            /\ ~PlaceFound => fetches = 0 /\ hqResult = Null
            /\ hqPc \in {"start", "fetched", "hops"} => ENABLED HqNext)
    /\ [][hqPc # "off" => HqPosition(hqPc') > HqPosition(hqPc)]_vars

\* C26 witness: a chain of three located-in hops; two calls were made, the
\* third hop was never asked for, and the record was returned.
C26_Witness ==
    /\ hqPc = "returned" /\ hqResult # Null
    /\ wikidata.p131[PLACE] = "Q2" /\ wikidata.p131["Q2"] = "Q3" /\ wikidata.p131["Q3"] = "Q4"
    /\ fetches = 2
    /\ requested = {"Q2", "Q3"}


\* What an invocation answers when it runs alone: the name merged from its
\* own domain and its own collaborators' answers.
AloneResponse(request) == NameOf(request.wikiName, request.baseName, Str(request.domain))

\* C22: however the invocations interleave at their awaits, each answers what
\* it answers when run alone, and the module-level values stay as the module
\* declared them.
C22_ResponsesAsWhenRunAlone ==
    moduleValues # Null =>
        /\ moduleValues = ModuleValues
        /\ \A i \in Invocations :
              invPc[i] = "done" => invResponses[i] = AloneResponse(requests[i])

\* C22 witness: the second invocation ran to its answer while the first was
\* suspended with other bindings in its frame.
C22_Witness ==
    /\ moduleValues # Null
    /\ invPc[1] = "merge" /\ invPc[2] = "done"
    /\ requests[1].domain # requests[2].domain
    /\ requests[1].baseName # Null /\ requests[2].baseName = Null
    /\ requests[1].wikiName # Null /\ requests[2].wikiName = Null
    /\ invResponses[2] = Str(requests[2].domain)

====
